---- MODULE Spec2Model ----
(***************************************************************************)
(* A model of the geodesy toolkit: the Vincenty direct solution and its    *)
(* derived operations (src/unnamed/part_000), the callers of the inverse   *)
(* solution (VB port), and the reference-frame conversion of               *)
(* src/latlon-ellipsoidal-datum.js.                                        *)
(*                                                                         *)
(* Numbers.  A JavaScript value is a record [t, k, n]:                     *)
(*   t = "number": k = "fin" (the finite number n), "nan" or "inf";        *)
(*   t = "string": k = "dec" (the decimal text of n), "txt" (text that is  *)
(*                 no number) or "empty";                                  *)
(*   t = "null", t = "undefined".                                          *)
(* Angles in degrees are binary floating-point numbers with a short        *)
(* mantissa, counted in quanta of 1/DegQ degree (see FRound).              *)
(***************************************************************************)
EXTENDS Integers, Sequences, FiniteSets, TLC

VARIABLES
    pc,         \* position of the current call: "idle", "loop", "post", "done"
    call,       \* the operation called and its arguments
    iterations, \* direct(): the local variable `iterations`
    passes,     \* direct(): number of executions of the do-while body
    lastDelta,  \* direct(): class of |sigma - sigma'| at the last pass
    inv,        \* intermediatePointTo / VB callers: outcome of the inverse solution
    dargs,      \* direct(): its arguments distance, initialBearing
    dres,       \* outcome of direct() itself
    res,        \* outcome seen by the caller of the operation
    txParams,   \* the table of transform parameters, in key order
    fpc,        \* position of the reference-frame call: "idle", "done"
    fcall,      \* convertReferenceFrame: this point and the target frame
    fres,       \* outcome of convertReferenceFrame
    datums,     \* the registry `datums` of the datum module
    gpc,        \* position of the datum call: "idle", "done"
    gcall,      \* the datum or tag operation called, its receiver and argument
    gres,       \* outcome of that operation
    gtrace,     \* convertDatum: the branches its calls took, the transforms applied
    pt,         \* the geodetic point under construction and assignment
    pcall,      \* the last operation on the point and its arguments
    pres,       \* how that operation ended: "none", "ok", "TypeError"
    pclean,     \* no operation on the point has thrown so far
    pheight,    \* the field _height of the point
    pc_VB,      \* position of the VB call of Direct: "idle", "loop", "post", "done"
    call_VB,    \* VB Direct: the receiver and the arguments distance, initialBearing
    iterations_VB, \* VB Direct: the local variable `iterations`
    passes_VB,  \* VB Direct: number of executions of the Do ... Loop body
    lastDelta_VB, \* VB Direct: class of |sigma - sigma'| at the last pass
    res_VB      \* outcome of VB Direct

vvars == <<pc, call, iterations, passes, lastDelta, inv, dargs, dres, res>>
fvars == <<txParams, fpc, fcall, fres>>
dvars == <<datums, gpc, gcall, gres, gtrace>>
pvars == <<pt, pcall, pres, pclean, pheight>>
bvars == <<pc_VB, call_VB, iterations_VB, passes_VB, lastDelta_VB, res_VB>>
vars == <<vvars, fvars, dvars, pvars, bvars>>

----------------------------------------------------------------------------
(* JavaScript values *)

NumV(n) == [t |-> "number", k |-> "fin", n |-> n]
NaNV == [t |-> "number", k |-> "nan", n |-> 0]
InfV == [t |-> "number", k |-> "inf", n |-> 0]
DecStr(n) == [t |-> "string", k |-> "dec", n |-> n]
TxtStr == [t |-> "string", k |-> "txt", n |-> 0]
EmptyStr == [t |-> "string", k |-> "empty", n |-> 0]
NullV == [t |-> "null", k |-> "", n |-> 0]
UndefV == [t |-> "undefined", k |-> "", n |-> 0]

\* Number(v)
ToNumber(v) ==
    CASE v.t = "number" -> v
      [] v.t = "string" /\ v.k = "dec" -> NumV(v.n)
      [] v.t = "string" /\ v.k = "empty" -> NumV(0)
      [] v.t = "string" /\ v.k = "txt" -> NaNV
      [] v.t = "null" -> NumV(0)
      [] OTHER -> NaNV

\* isNaN(v)
IsNaNJs(v) == ToNumber(v).k = "nan"

\* v == 0 (loose equality: null and undefined equal only each other)
LooseEqZero(v) == v.t \in {"number", "string"} /\ ToNumber(v) = NumV(0)

----------------------------------------------------------------------------
(* Binary floating point with a short mantissa, for degree values *)

DegQ == 8
Mant == 2048

Abs(x) == IF x < 0 THEN -x ELSE x

RECURSIVE Spacing(_)
Spacing(x) == IF Abs(x) < Mant THEN 1 ELSE 2 * Spacing(x \div 2)

\* round the exact value x (in quanta) to the nearest representable number,
\* ties to the even mantissa
FRound(x) ==
    LET s == Spacing(x)
        lo == (x \div s) * s
        hi == lo + s
    IN  IF x = lo THEN x
        ELSE IF 2 * (x - lo) < s THEN lo
        ELSE IF 2 * (x - lo) > s THEN hi
        ELSE IF (lo \div s) % 2 = 0 THEN lo ELSE hi

FAdd(x, y) == FRound(x + y)

\* JavaScript x % p (remainder with the sign of the dividend; exact)
JsRem(x, p) == IF x >= 0 THEN x % p ELSE -((-x) % p)

\* the quotient n / d (d > 0) rounded to the nearest integer, ties to even
DivNearest(n, d) ==
    LET lo == n \div d
        r == n - lo * d
    IN  IF 2 * r < d THEN lo
        ELSE IF 2 * r > d THEN lo + 1
        ELSE IF lo % 2 = 0 THEN lo ELSE lo + 1

\* x * c and x / c for the plain number c
FMul(x, c) == FRound(x * c)
FDiv(x, c) == FRound(DivNearest(x, c))

\* mutant: the final reduction of wrap360 left out
Wrap360Last_Dropped(v, p) == v

\* the final reduction of wrap360: (... + p) % p
Wrap360Last(v, p) == JsRem(v, p)

\* Dms.wrap360(degrees), degrees a finite number
wrap360(degrees) ==
    IF 0 <= degrees /\ degrees < 360 * DegQ THEN degrees
    ELSE LET x == degrees
             a == 180
             p == 360
         IN  Wrap360Last(FAdd(JsRem(FDiv(FMul(x, 2 * a), p), p * DegQ), p * DegQ), p * DegQ)

----------------------------------------------------------------------------
(* Points and outcomes *)

Positions == {"A", "B"}
Heights == {0, 17}
DatumTags == {"undefined", "WGS84"}

\* a geodetic point given by the caller: its latitude/longitude is the
\* position pos
GivenPoint(pos, height, datum) ==
    [tag |-> "given", pos |-> pos, height |-> height, datum |-> datum,
     s |-> NaNV, a1 |-> NaNV]

Points == {GivenPoint(p, h, d) : p \in Positions, h \in Heights, d \in DatumTags}

NoPoint == [tag |-> "none", pos |-> "", height |-> 0, datum |-> "undefined",
            s |-> NaNV, a1 |-> NaNV]

\* new LatLonEllipsoidal_Vincenty(phi2, lambda2, 0, this.datum): the point
\* reached from self over distance s on initial bearing a1.  phi2 and
\* lambda2 are functions of (self, s, a1); the inherited constructor takes
\* (lat, lon, height) only, so the new point has no datum.
DestPoint(self, s, a1) ==
    [tag |-> "dest", pos |-> self.pos, height |-> 0, datum |-> "undefined",
     s |-> s, a1 |-> a1]

NoOutcome == [kind |-> "none", err |-> "", point |-> NoPoint, num |-> NaNV, iterations |-> 0]
Throw(e) == [kind |-> "throw", err |-> e, point |-> NoPoint, num |-> NaNV, iterations |-> 0]
\* direct()'s result object { point, finalBearing, iterations }
DirectResult(p, fb, it) ==
    [kind |-> "return", err |-> "", point |-> p, num |-> fb, iterations |-> it]
ReturnPoint(p) == [kind |-> "return", err |-> "", point |-> p, num |-> NaNV, iterations |-> 0]
ReturnNum(v) == [kind |-> "return", err |-> "", point |-> NoPoint, num |-> v, iterations |-> 0]

----------------------------------------------------------------------------
(* Vincenty direct solution (JavaScript) *)

MaxIterations == 100

\* mutant: the surface check made first
DirectGuards_HeightFirst(self, distance, initialBearing) ==
    IF self.height # 0 THEN "offSurface"
    ELSE IF IsNaNJs(distance) THEN "invalidDistance"
    ELSE IF LooseEqZero(distance) THEN "zeroDistance"
    ELSE IF IsNaNJs(initialBearing) THEN "invalidBearing"
    ELSE "compute"

\* mutant: no surface check
DirectGuards_NoHeight(self, distance, initialBearing) ==
    IF IsNaNJs(distance) THEN "invalidDistance"
    ELSE IF LooseEqZero(distance) THEN "zeroDistance"
    ELSE IF IsNaNJs(initialBearing) THEN "invalidBearing"
    ELSE "compute"

\* mutant: no check of the bearing
DirectGuards_NoBearing(self, distance, initialBearing) ==
    IF IsNaNJs(distance) THEN "invalidDistance"
    ELSE IF LooseEqZero(distance) THEN "zeroDistance"
    ELSE IF self.height # 0 THEN "offSurface"
    ELSE "compute"

\* the checks at the head of direct(), in the order of the code
DirectGuards(self, distance, initialBearing) ==
    IF IsNaNJs(distance) THEN "invalidDistance"
    ELSE IF LooseEqZero(distance) THEN "zeroDistance"
    ELSE IF IsNaNJs(initialBearing) THEN "invalidBearing"
    ELSE IF self.height # 0 THEN "offSurface"
    ELSE "compute"

\* what direct() does before the sigma loop: an outcome, or NoOutcome when
\* the computation goes on
DirectHead(self, distance, initialBearing) ==
    LET g == DirectGuards(self, distance, initialBearing)
    IN  CASE g = "invalidDistance" -> Throw("TypeError")
          [] g = "zeroDistance" -> DirectResult(self, NaNV, 0)
          [] g = "invalidBearing" -> Throw("TypeError")
          [] g = "offSurface" -> Throw("RangeError")
          [] OTHER -> NoOutcome

\* s = Number(distance), alpha1 = Number(initialBearing): sigma, and so
\* every later quantity, is NaN when one of them is not finite
Finite(v) == ToNumber(v).k = "fin"

\* the classes of |sigma - sigma'| a pass can produce
DeltaClasses(distance, initialBearing) ==
    IF Finite(distance) /\ Finite(initialBearing) THEN {"small", "large"} ELSE {"nan"}

\* Math.abs(sigma - sigma') > 1e-12
DeltaAbove(delta) == delta = "large"

\* mutant: the counter is tested but never incremented
LoopTest_NoIncrement(delta, it) ==
    [iterations |-> it, again |-> DeltaAbove(delta) /\ it < MaxIterations]

\* the do-while condition after one pass: [iterations, again]
LoopTest(delta, it) ==
    IF ~DeltaAbove(delta) THEN [iterations |-> it, again |-> FALSE]
    ELSE [iterations |-> it + 1, again |-> it + 1 < MaxIterations]

\* if (iterations >= 100) throw new EvalError
LoopFailed(it) == it >= MaxIterations

\* alpha2.toDegrees() for alpha2 = Math.atan2(sinAlpha, -x): a number of
\* [-180, 180] degrees
Alpha2Degs ==
    {-180 * DegQ, -90 * DegQ, -1, 0, 1, 90 * DegQ, 180 * DegQ}

\* the part of direct() after the loop, for the final azimuth a2
DirectTail(self, distance, initialBearing, it, a2) ==
    IF ~(Finite(distance) /\ Finite(initialBearing))
    THEN Throw("TypeError")     \* the constructor rejects the NaN latitude
    ELSE DirectResult(DestPoint(self, ToNumber(distance), ToNumber(initialBearing)),
                      NumV(wrap360(a2)), it)

\* brng.toFixed(7): rounding to 7 decimals moves a number by less than half
\* a quantum, so the text reads back as the same model number; NaN gives
\* the text "NaN"
ToFixed7(v) == IF v.k = "fin" THEN DecStr(v.n) ELSE TxtStr

\* what the caller of operation op gets from the outcome d of direct()
WrapDirect(op, d) ==
    IF d.kind = "throw" THEN d
    ELSE CASE op = "direct" -> d
           [] op = "finalBearingOn" -> ReturnNum(ToNumber(ToFixed7(d.num)))
           [] OTHER -> ReturnPoint(d.point)   \* destinationPoint

\* the arguments destinationPoint / finalBearingOn hand to direct()
WrapArg(v) == ToNumber(v)

----------------------------------------------------------------------------
(* Inverse solution and intermediatePointTo *)

FracQ == 2
MaxFrac == 3

\* fraction values, counted in units of 1/FracQ
Fractions == {NumV(k) : k \in 0..MaxFrac} \cup {NaNV}

InverseDistances == {1000, 2000}
InverseBearings == {0, 90 * DegQ}

InvThrow(e) == [kind |-> "throw", err |-> e, distance |-> NaNV,
                initialBearing |-> NaNV, finalBearing |-> NaNV]
InvReturn(d, ib, fb) == [kind |-> "return", err |-> "", distance |-> d,
                         initialBearing |-> ib, finalBearing |-> fb]
NoInverse == [kind |-> "none", err |-> "", distance |-> NaNV,
              initialBearing |-> NaNV, finalBearing |-> NaNV]

\* the outcomes the inverse solution can have for the points p1, p2
InverseOutcomes(p1, p2) ==
    IF p1.height # 0 \/ p2.height # 0 THEN {InvThrow("RangeError")}
    ELSE IF p1.pos = p2.pos THEN {InvReturn(NumV(0), NaNV, NaNV)}
    ELSE {InvReturn(NumV(d), NumV(ib), NumV(fb)) :
              d \in InverseDistances, ib \in InverseBearings, fb \in InverseBearings}
         \cup {InvThrow("EvalError")}

\* dist * fraction
TimesFraction(dist, fraction) ==
    IF dist.k = "fin" /\ fraction.k = "fin"
    THEN NumV(DivNearest(dist.n * fraction.n, FracQ))
    ELSE NaNV

\* mutant: the two early returns exchanged
IntermediateHead_Swapped(self, point, fraction, inverse) ==
    IF LooseEqZero(fraction) THEN ReturnPoint(point)
    ELSE IF ToNumber(fraction) = NumV(FracQ) THEN ReturnPoint(self)
    ELSE IF inverse.kind = "throw" THEN Throw(inverse.err)
    ELSE IF IsNaNJs(inverse.initialBearing) THEN ReturnPoint(self)
    ELSE NoOutcome

\* intermediatePointTo before it calls destinationPoint: an outcome, or
\* NoOutcome when destinationPoint(dist * fraction, brng) is called
IntermediateHead(self, point, fraction, inverse) ==
    IF LooseEqZero(fraction) THEN ReturnPoint(self)
    ELSE IF ToNumber(fraction) = NumV(FracQ) THEN ReturnPoint(point)
    ELSE IF inverse.kind = "throw" THEN Throw(inverse.err)
    ELSE IF IsNaNJs(inverse.initialBearing) THEN ReturnPoint(self)
    ELSE NoOutcome

\* Math.Round(x, digits) of the VB callers: as for ToFixed7, rounding to 3
\* or 7 decimals gives back the same model number; NaN stays NaN
MathRound(v) == v

\* mutant: every exception of Inverse is turned into NaN
InverseCaller_CatchAll(op, inverse) ==
    IF inverse.kind = "throw" THEN ReturnNum(NaNV)
    ELSE CASE op = "DistanceTo" -> ReturnNum(MathRound(inverse.distance))
           [] op = "InitialBearingTo" -> ReturnNum(MathRound(inverse.initialBearing))
           [] OTHER -> ReturnNum(MathRound(inverse.finalBearing))

\* DistanceTo / InitialBearingTo / FinalBearingTo of the VB port: the Try
\* block around Me.Inverse(point), for the outcome inverse of Inverse.  The
\* non-convergence exception is EvalException in module
\* VincentyDirectInverse and EvalError in module LatLonEllipsoidal_Vincenty;
\* the model calls it "EvalError".
InverseCaller(op, inverse) ==
    IF inverse.kind = "throw"
    THEN IF inverse.err = "EvalError" THEN ReturnNum(NaNV) ELSE Throw(inverse.err)
    ELSE CASE op = "DistanceTo" -> ReturnNum(MathRound(inverse.distance))
           [] op = "InitialBearingTo" -> ReturnNum(MathRound(inverse.initialBearing))
           [] OTHER -> ReturnNum(MathRound(inverse.finalBearing))

----------------------------------------------------------------------------
(* Calls *)

DistanceVals == {NumV(0), NumV(1000), NaNV, InfV, TxtStr, DecStr(1000), EmptyStr, NullV, UndefV}
BearingVals == {NumV(0), NumV(90 * DegQ), NaNV, InfV, TxtStr, UndefV}

NoCall == [op |-> "", self |-> NoPoint, distance |-> UndefV, bearing |-> UndefV,
           other |-> NoPoint, fraction |-> UndefV]

\* this.direct(distance, initialBearing) up to the sigma loop
EnterDirect(op, self, distance, initialBearing) ==
    LET h == DirectHead(self, distance, initialBearing)
    IN  /\ dargs' = [distance |-> distance, bearing |-> initialBearing]
        /\ iterations' = 0
        /\ passes' = 0
        /\ lastDelta' = "none"
        /\ IF h.kind # "none"
           THEN /\ dres' = h
                /\ res' = WrapDirect(op, h)
                /\ pc' = "done"
           ELSE /\ dres' = NoOutcome
                /\ res' = NoOutcome
                /\ pc' = "loop"

CallDirect ==
    /\ pc = "idle"
    /\ \E self \in Points, d \in DistanceVals, b \in BearingVals :
          /\ call' = [NoCall EXCEPT !.op = "direct", !.self = self,
                                    !.distance = d, !.bearing = b]
          /\ EnterDirect("direct", self, d, b)
    /\ UNCHANGED <<inv, fvars, dvars, pvars, bvars>>

CallDestinationPoint ==
    /\ pc = "idle"
    /\ \E self \in Points, d \in DistanceVals, b \in BearingVals :
          /\ call' = [NoCall EXCEPT !.op = "destinationPoint", !.self = self,
                                    !.distance = d, !.bearing = b]
          /\ EnterDirect("destinationPoint", self, WrapArg(d), WrapArg(b))
    /\ UNCHANGED <<inv, fvars, dvars, pvars, bvars>>

CallFinalBearingOn ==
    /\ pc = "idle"
    /\ \E self \in Points, d \in DistanceVals, b \in BearingVals :
          /\ call' = [NoCall EXCEPT !.op = "finalBearingOn", !.self = self,
                                    !.distance = d, !.bearing = b]
          /\ EnterDirect("finalBearingOn", self, WrapArg(d), WrapArg(b))
    /\ UNCHANGED <<inv, fvars, dvars, pvars, bvars>>

CallIntermediatePointTo ==
    /\ pc = "idle"
    /\ \E self \in Points, point \in Points, fraction \in Fractions :
        \E inverse \in InverseOutcomes(self, point) :
          LET h == IntermediateHead(self, point, fraction, inverse)
              early == LooseEqZero(fraction) \/ ToNumber(fraction) = NumV(FracQ)
          IN  /\ call' = [NoCall EXCEPT !.op = "intermediatePointTo", !.self = self,
                                        !.other = point, !.fraction = fraction]
              /\ inv' = IF early THEN NoInverse ELSE inverse
              /\ IF h.kind # "none"
                 THEN /\ res' = h
                      /\ pc' = "done"
                      /\ UNCHANGED <<iterations, passes, lastDelta, dargs, dres>>
                 ELSE EnterDirect("intermediatePointTo", self,
                                  WrapArg(TimesFraction(inverse.distance, fraction)),
                                  WrapArg(inverse.initialBearing))
    /\ UNCHANGED <<fvars, dvars, pvars, bvars>>

\* a VB caller of the inverse solution, from call to return
CallInverse(op) ==
    /\ pc = "idle"
    /\ \E self \in Points, point \in Points :
        \E inverse \in InverseOutcomes(self, point) :
          /\ call' = [NoCall EXCEPT !.op = op, !.self = self, !.other = point]
          /\ inv' = inverse
          /\ res' = InverseCaller(op, inverse)
    /\ pc' = "done"
    /\ UNCHANGED <<iterations, passes, lastDelta, dargs, dres, fvars, dvars, pvars, bvars>>

CallDistanceTo == CallInverse("DistanceTo")
CallInitialBearingTo == CallInverse("InitialBearingTo")
CallFinalBearingTo == CallInverse("FinalBearingTo")

\* one pass of the do-while loop of direct()
LoopPass ==
    /\ pc = "loop"
    /\ \E delta \in DeltaClasses(dargs.distance, dargs.bearing) :
          LET t == LoopTest(delta, iterations)
          IN  /\ passes' = passes + 1
              /\ lastDelta' = delta
              /\ iterations' = t.iterations
              /\ IF t.again
                 THEN pc' = "loop" /\ UNCHANGED <<dres, res>>
                 ELSE IF LoopFailed(t.iterations)
                 THEN /\ dres' = Throw("EvalError")
                      /\ res' = WrapDirect(call.op, Throw("EvalError"))
                      /\ pc' = "done"
                 ELSE pc' = "post" /\ UNCHANGED <<dres, res>>
    /\ UNCHANGED <<call, inv, dargs, fvars, dvars, pvars, bvars>>

\* direct() from the end of the loop to its return
DirectFinish ==
    /\ pc = "post"
    /\ \E a2 \in Alpha2Degs :
          LET d == DirectTail(call.self, dargs.distance, dargs.bearing, iterations, a2)
          IN  /\ dres' = d
              /\ res' = WrapDirect(call.op, d)
    /\ pc' = "done"
    /\ UNCHANGED <<call, inv, dargs, iterations, passes, lastDelta, fvars, dvars, pvars, bvars>>

----------------------------------------------------------------------------
(* The VB.NET port of the direct solution (src/latlon-ellipsoidal-datum.js, *)
(* module VincentyDirectInverse).  Its arguments are Doubles.               *)

\* most passes of the Do ... Loop followed in one run
MaxPasses == 103

Doubles_Distance == {NumV(0), NumV(1000), NaNV, InfV}
Doubles_Bearing == {NumV(0), NumV(90 * DegQ), NaNV, InfV}

NoCall_VB == [self |-> NoPoint, distance |-> NaNV, bearing |-> NaNV]

\* the guards of Direct, in the order the code tests them
DirectHead_VB(self, distance, initialBearing) ==
    IF distance.k = "nan" THEN Throw("ArgumentException")
    ELSE IF distance = NumV(0) THEN DirectResult(self, NaNV, 0)
    ELSE IF initialBearing.k = "nan" THEN Throw("ArgumentException")
    ELSE IF self.height # 0 THEN Throw("ArgumentOutOfRangeException")
    ELSE NoOutcome

\* sigma is NaN from the first pass on when s or alpha1 is infinite
DeltaClasses_VB(distance, initialBearing) ==
    IF distance.k = "fin" /\ initialBearing.k = "fin" THEN {"small", "large"} ELSE {"nan"}

\* Loop While Math.Abs(sigma - sigma') > 1e-12 AndAlso iterations < 100:
\* the body leaves `iterations` as it is
LoopWhile_VB(delta, it) ==
    [iterations |-> it, again |-> DeltaAbove(delta) /\ it < MaxIterations]

\* Dms.Wrap360 of the VB module
Wrap360_VB(degrees) ==
    IF degrees < 0 THEN FAdd(JsRem(degrees, 360 * DegQ), 360 * DegQ)
    ELSE JsRem(degrees, 360 * DegQ)

\* the part of Direct after the loop; the VB constructor accepts NaN
DirectTail_VB(self, distance, initialBearing, it, a2) ==
    IF distance.k = "fin" /\ initialBearing.k = "fin"
    THEN DirectResult(DestPoint(self, distance, initialBearing), NumV(Wrap360_VB(a2)), it)
    ELSE DirectResult(DestPoint(self, distance, initialBearing), NaNV, it)

CallDirect_VB ==
    /\ pc_VB = "idle"
    /\ \E self \in Points, d \in Doubles_Distance, b \in Doubles_Bearing :
          LET h == DirectHead_VB(self, d, b)
          IN  /\ call_VB' = [self |-> self, distance |-> d, bearing |-> b]
              /\ res_VB' = h
              /\ pc_VB' = IF h.kind # "none" THEN "done" ELSE "loop"
    /\ iterations_VB' = 0
    /\ passes_VB' = 0
    /\ lastDelta_VB' = "none"
    /\ UNCHANGED <<vvars, fvars, dvars, pvars>>

\* one pass of the Do ... Loop of Direct, and the test that follows the loop
LoopPass_VB ==
    /\ pc_VB = "loop"
    /\ passes_VB < MaxPasses
    /\ \E delta \in DeltaClasses_VB(call_VB.distance, call_VB.bearing) :
          LET t == LoopWhile_VB(delta, iterations_VB)
          IN  /\ passes_VB' = passes_VB + 1
              /\ lastDelta_VB' = delta
              /\ iterations_VB' = t.iterations
              /\ IF t.again
                 THEN pc_VB' = "loop" /\ UNCHANGED res_VB
                 ELSE IF LoopFailed(t.iterations)
                 THEN res_VB' = Throw("EvalException") /\ pc_VB' = "done"
                 ELSE pc_VB' = "post" /\ UNCHANGED res_VB
    /\ UNCHANGED <<call_VB, vvars, fvars, dvars, pvars>>

\* Direct from the end of the loop to its Return
DirectFinish_VB ==
    /\ pc_VB = "post"
    /\ \E a2 \in Alpha2Degs :
          res_VB' = DirectTail_VB(call_VB.self, call_VB.distance, call_VB.bearing,
                                  iterations_VB, a2)
    /\ pc_VB' = "done"
    /\ UNCHANGED <<call_VB, iterations_VB, passes_VB, lastDelta_VB,
                   vvars, fvars, dvars, pvars>>

----------------------------------------------------------------------------
(* Reference frames (src/latlon-ellipsoidal-datum.js).                     *)
(*                                                                         *)
(* A string is the sequence of its characters.  Coordinates and the        *)
(* Helmert arithmetic are exact: a coordinate is a polynomial in the two   *)
(* unit factors eps = 1e-9 (parts per billion) and kap = the radians in a  *)
(* milliarcsecond, with integer coefficients counted in millimetres;       *)
(* epochs are whole years.  The rounding of doubles is left out.           *)

\* the character U+2192 that joins the two frame names of a key
Arrow == "->"

Str_ITRF == <<"I", "T", "R", "F">>
Str_WGS84 == <<"W", "G", "S", "8", "4">>
Str_undefined == <<"u", "n", "d", "e", "f", "i", "n", "e", "d">>

\* String.prototype.startsWith
startsWith(s, prefix) ==
    Len(s) >= Len(prefix) /\ SubSeq(s, 1, Len(prefix)) = prefix

\* String.prototype.split with the arrow as separator: the sequence of parts
RECURSIVE split(_)
split(s) ==
    IF \A i \in 1..Len(s) : s[i] # Arrow THEN <<s>>
    ELSE LET i == CHOOSE j \in 1..Len(s) :
                      s[j] = Arrow /\ \A k \in 1..(j - 1) : s[k] # Arrow
         IN  <<SubSeq(s, 1, i - 1)>> \o split(SubSeq(s, i + 1, Len(s)))

\* a string value or undefined
StrV(s) == [def |-> TRUE, s |-> s]
UndefStr == [def |-> FALSE, s |-> <<>>]

\* element i (from 0) of an array of strings
At(arr, i) == IF i + 1 <= Len(arr) THEN StrV(arr[i + 1]) ELSE UndefStr

\* string concatenation: undefined becomes the text "undefined"
ToStr(v) == IF v.def THEN v.s ELSE Str_undefined

\* a string used as a condition
Truthy(v) == v.def /\ v.s # <<>>

\* the key oldName + '→' + newName
Key(a, b) == ToStr(a) \o <<Arrow>> \o ToStr(b)

\* a reference frame object { name, epoch }; epoch 0 with hasEpoch FALSE
\* is a frame object without epoch
Frame(name, epoch) == [def |-> TRUE, name |-> name, epoch |-> epoch, hasEpoch |-> TRUE]
NoFrame == [def |-> FALSE, name |-> <<>>, epoch |-> 0, hasEpoch |-> FALSE]

ITRF2014 == Frame(Str_ITRF \o <<"2", "0", "1", "4">>, 2010)
WGS84g1762 == Frame(Str_WGS84 \o <<"g", "1", "7", "6", "2">>, 2005)
ETRF2000 == Frame(<<"E", "T", "R", "F", "2", "0", "0", "0">>, 2005)
NAD83 == Frame(<<"N", "A", "D", "8", "3">>, 1997)

referenceFrames == {ITRF2014, WGS84g1762, ETRF2000, NAD83}

\* frame objects a caller can pass besides those of the table: one that
\* carries the name of ITRF2014 and another epoch, one without epoch, none
TargetFrames ==
    referenceFrames \cup
    { Frame(ITRF2014.name, 2020),
      [def |-> TRUE, name |-> NAD83.name, epoch |-> 0, hasEpoch |-> FALSE],
      NoFrame }

\* polynomials in eps and kap: the coefficient of eps^i kap^j at <<i, j>>;
\* two transforms in a row give terms of degree 2 at most
Mono == {m \in (0..2) \X (0..2) : m[1] + m[2] <= 2}
PTerm(c, mono) == [m \in Mono |-> IF m = mono THEN c ELSE 0]
PConst(c) == PTerm(c, <<0, 0>>)
PEps(c) == PTerm(c, <<1, 0>>)
PKap(c) == PTerm(c, <<0, 1>>)
PAdd(p, q) == [m \in Mono |-> p[m] + q[m]]
PSub(p, q) == [m \in Mono |-> p[m] - q[m]]

\* the coefficient at m of the product p * q: the sum over a <= m[1] and
\* b <= m[2] of p[a, b] * q[m[1] - a, m[2] - b]
RECURSIVE ConvRow(_, _, _, _, _)
ConvRow(p, q, m, a, b) ==
    IF b > m[2] THEN 0
    ELSE p[<<a, b>>] * q[<<m[1] - a, m[2] - b>>] + ConvRow(p, q, m, a, b + 1)

RECURSIVE Conv(_, _, _, _)
Conv(p, q, m, a) ==
    IF a > m[1] THEN 0
    ELSE ConvRow(p, q, m, a, 0) + Conv(p, q, m, a + 1)

PMul(p, q) == [m \in Mono |-> Conv(p, q, m, 0)]

\* new Cartesian_ReferenceFrame(x, y, z, referenceFrame, epoch) with a valid
\* frame or none, and a numeric epoch or none (0)
Cartesian_ReferenceFrame(x, y, z, referenceFrame, epoch) ==
    [x |-> x, y |-> y, z |-> z, frame |-> referenceFrame, epoch |-> epoch]

NoCartesian ==
    Cartesian_ReferenceFrame(PConst(0), PConst(0), PConst(0), NoFrame, 0)

\* get epoch(): 0 stands for undefined
EpochOf(c) ==
    IF c.epoch # 0 THEN c.epoch
    ELSE IF c.frame.def THEN c.frame.epoch ELSE 0

\* mutant: the assignment of the frame does nothing
SetReferenceFrame_Kept(c, f) == c

\* set referenceFrame(f), for a frame that has an epoch
SetReferenceFrame(c, f) == [c EXCEPT !.frame = f]

\* mutant: the assignment of the epoch does nothing
SetEpoch_Skipped(c, e) == c

\* set epoch(e), for a numeric e
SetEpoch(c, e) ==
    IF c.epoch = 0 \/ c.epoch # c.frame.epoch THEN [c EXCEPT !.epoch = e] ELSE c

\* applyTransform(params, rates, dt): parameters 0..6 are elements 1..7
applyTransform(c, params, rates, dt) ==
    LET Tx == PConst(params[1] + rates[1] * dt)
        Ty == PConst(params[2] + rates[2] * dt)
        Tz == PConst(params[3] + rates[3] * dt)
        S  == PAdd(PConst(1), PEps(params[4] + rates[4] * dt))
        Rx == PKap(params[5] + rates[5] * dt)
        Ry == PKap(params[6] + rates[6] * dt)
        Rz == PKap(params[7] + rates[7] * dt)
        x2 == PAdd(PSub(PAdd(Tx, PMul(c.x, S)), PMul(c.y, Rz)), PMul(c.z, Ry))
        y2 == PSub(PAdd(PAdd(Ty, PMul(c.x, Rz)), PMul(c.y, S)), PMul(c.z, Rx))
        z2 == PAdd(PAdd(PSub(Tz, PMul(c.x, Ry)), PMul(c.y, Rx)), PMul(c.z, S))
    IN  Cartesian_ReferenceFrame(x2, y2, z2, NoFrame, 0)

\* an entry of the table of transform parameters, with its key
Entry(from, to, epoch, params, rates) ==
    [def |-> TRUE, key |-> Key(StrV(from.name), StrV(to.name)), epoch |-> epoch,
     params |-> params, rates |-> rates]
NoEntry == [def |-> FALSE, key |-> <<>>, epoch |-> 0, params |-> <<>>, rates |-> <<>>]

\* the entries a table is made of
EntryPool ==
    { Entry(ITRF2014, NAD83,      2010, <<14, -19, 7, 11, 3, -5, 2>>, <<1, -2, 3, -1, 2, 1, -3>>),
      Entry(NAD83,    ITRF2014,   1997, <<-9, 21, -4, -8, -2, 6, -1>>, <<2, 1, -1, 3, -2, -1, 1>>),
      Entry(ITRF2014, ETRF2000,   2000, <<5, 2, -8, 1, 8, 1, -7>>,     <<1, 1, -2, 1, 1, 3, -2>>),
      Entry(ETRF2000, NAD83,      1997, <<-3, 6, 1, 4, -1, 2, 5>>,     <<-1, 2, 1, -2, 3, -1, 2>>),
      Entry(NAD83,    ETRF2000,   2005, <<7, -1, 3, -6, 4, -3, 1>>,    <<3, -1, 2, 1, -1, 2, -1>>),
      Entry(ETRF2000, ITRF2014,   2010, <<-2, 4, 9, 2, -6, 1, 3>>,     <<-2, 3, 1, -1, 1, -2, 1>>),
      Entry(ITRF2014, WGS84g1762, 2005, <<1, -1, 2, 3, 1, -2, 4>>,     <<1, 2, -1, 1, -1, 1, 2>>) }

MaxEntries == 3

\* the tables: the entries in the order of their keys, no key twice
Tables ==
    { t \in UNION { [1..n -> EntryPool] : n \in 0..MaxEntries } :
          \A i, j \in DOMAIN t : i # j => t[i].key # t[j].key }

\* txParams[key]
Lookup(table, key) ==
    IF \E i \in DOMAIN table : table[i].key = key
    THEN table[CHOOSE i \in DOMAIN table : table[i].key = key]
    ELSE NoEntry

\* Object.keys(txParams).filter(tx => tx.split('→')[from] == name)
\*                      .map(tx => tx.split('→')[to])
Avail(table, from, name, to) ==
    LET Test(e) == At(split(e.key), from) = StrV(name)
        kept == SelectSeq(table, Test)
    IN  [i \in DOMAIN kept |-> At(split(kept[i].key), to)]

includes(arr, v) == \E i \in DOMAIN arr : arr[i] = v

\* a.filter(tx => b.includes(tx))[0]
FirstCommon(a, b) ==
    LET Test(v) == includes(b, v)
        kept == SelectSeq(a, Test)
    IN  IF kept = <<>> THEN UndefStr ELSE kept[1]

\* outcomes of convertReferenceFrame
FReturn(c, same) == [kind |-> "return", err |-> "", msg |-> "", point |-> c, same |-> same]
FThrow(e, m) == [kind |-> "throw", err |-> e, msg |-> m, point |-> NoCartesian, same |-> FALSE]
NoFOutcome == [kind |-> "none", err |-> "", msg |-> "", point |-> NoCartesian, same |-> FALSE]

\* reading a property of undefined
UndefinedRead == FThrow("TypeError", "cannot read properties of undefined")

\* mutant: the rates are left as they are
reverseTransform_RatesKept(tx) ==
    [tx EXCEPT !.params = [i \in DOMAIN tx.params |-> -tx.params[i]]]

\* reverseTransform(tx), for an entry tx
reverseTransform(tx) ==
    [tx EXCEPT !.params = [i \in DOMAIN tx.params |-> -tx.params[i]],
               !.rates = [i \in DOMAIN tx.rates |-> -tx.rates[i]]]

\* mutant: no test of the names
SameName_Never(a, b) == FALSE

\* this.referenceFrame.name == toReferenceFrame.name
SameName(a, b) == a.name = b.name

\* mutant: only the first of the two tests
Coincident_OneWay(oldTrf, newTrf) ==
    startsWith(oldTrf.name, Str_ITRF) /\ startsWith(newTrf.name, Str_WGS84)

\* the two tests of the ITRF / WGS84 names
Coincident(oldTrf, newTrf) ==
    \/ startsWith(oldTrf.name, Str_ITRF) /\ startsWith(newTrf.name, Str_WGS84)
    \/ startsWith(oldTrf.name, Str_WGS84) /\ startsWith(newTrf.name, Str_ITRF)

\* tx = txFwd ? txFwd : reverseTransform(txRev), one of them being stored
SingleStep(txFwd, txRev) ==
    IF txFwd.def THEN txFwd ELSE reverseTransform(txRev)

\* newC.referenceFrame = toReferenceFrame; newC.epoch = oldC.epoch
Finish(newC, toReferenceFrame, oldC) ==
    FReturn(SetEpoch(SetReferenceFrame(newC, toReferenceFrame), EpochOf(oldC)), FALSE)

\* mutant: without a chain the point is passed on as it is
Chained_PassThrough(table, oldC, oldTrf, newTrf) == Finish(oldC, newTrf, oldC)

\* the branch of convertReferenceFrame that chains two transforms
Chained(table, oldC, oldTrf, newTrf) ==
    LET txAvailFromOld == Avail(table, 0, oldTrf.name, 1)
        txAvailToNew == Avail(table, 1, newTrf.name, 0)
        txIntermediateFwd == FirstCommon(txAvailFromOld, txAvailToNew)
        txAvailFromNew == Avail(table, 0, newTrf.name, 1)
        txAvailToOld == Avail(table, 1, oldTrf.name, 0)
        txIntermediateRev == FirstCommon(txAvailFromNew, txAvailToOld)
        txFwd1 == Lookup(table, Key(StrV(oldTrf.name), txIntermediateFwd))
        txFwd2 == Lookup(table, Key(txIntermediateFwd, StrV(newTrf.name)))
        txRev1 == Lookup(table, Key(StrV(newTrf.name), txIntermediateRev))
        txRev2 == Lookup(table, Key(txIntermediateRev, StrV(oldTrf.name)))
        fwd == Truthy(txIntermediateFwd)
        t == EpochOf(oldC)
    IN  IF ~fwd /\ ~txRev2.def THEN UndefinedRead
        ELSE IF ~fwd /\ ~txRev1.def THEN UndefinedRead
        ELSE LET tx1 == IF fwd THEN txFwd1 ELSE reverseTransform(txRev2)
                 tx2 == IF fwd THEN txFwd2 ELSE reverseTransform(txRev1)
             IN  IF ~tx1.def \/ ~tx2.def THEN UndefinedRead
                 ELSE Finish(applyTransform(
                                 applyTransform(oldC, tx1.params, tx1.rates, t - tx1.epoch),
                                 tx2.params, tx2.rates, t - tx2.epoch),
                             newTrf, oldC)

\* Cartesian_ReferenceFrame.convertReferenceFrame(toReferenceFrame)
convertReferenceFrame(table, this, toReferenceFrame) ==
    IF ~toReferenceFrame.def \/ ~toReferenceFrame.hasEpoch
    THEN FThrow("TypeError", "unrecognised reference frame")
    ELSE IF ~this.frame.def
    THEN FThrow("TypeError", "cartesian coordinate has no reference frame")
    ELSE IF SameName(this.frame, toReferenceFrame) THEN FReturn(this, TRUE)
    ELSE IF Coincident(this.frame, toReferenceFrame) THEN FReturn(this, TRUE)
    ELSE LET oldTrf == this.frame
             newTrf == toReferenceFrame
             txFwd == Lookup(table, Key(StrV(oldTrf.name), StrV(newTrf.name)))
             txRev == Lookup(table, Key(StrV(newTrf.name), StrV(oldTrf.name)))
         IN  IF txFwd.def \/ txRev.def
             THEN LET tx == SingleStep(txFwd, txRev)
                      t == EpochOf(this)
                      t0 == tx.epoch
                  IN  Finish(applyTransform(this, tx.params, tx.rates, t - t0),
                             toReferenceFrame, this)
             ELSE Chained(table, this, oldTrf, newTrf)

\* the points on which convertReferenceFrame is called
Coordinates == {<<3, 5, 7>>}
ObservationEpochs == {0, 2015}
ThisPoints ==
    { Cartesian_ReferenceFrame(PConst(c[1]), PConst(c[2]), PConst(c[3]), f, e) :
          c \in Coordinates, f \in referenceFrames \cup {NoFrame}, e \in ObservationEpochs }

NoFCall == [self |-> NoCartesian, to |-> NoFrame]

----------------------------------------------------------------------------
(* Datums (src/latlon-ellipsoidal-datum.js, lines 1 to 232).               *)
(*                                                                         *)
(* An object is known by its identity id, because the code compares datums *)
(* with ==.  Of an object only the two properties the code reads are kept: *)
(* ellipsoid (the key of the ellipsoid it references, "" when the object   *)
(* has no such property) and transform (its seven elements, <<>> when the  *)
(* object has no such property).  Coordinates are polynomials as above,    *)
(* here in the unit factors eps = 1e-6 (parts per million) and kap = the   *)
(* radians in an arcsecond.  The geodetic coordinates of a point are named *)
(* by the Cartesian coordinates they stand for on the point's ellipsoid;   *)
(* the rounding of that conversion is left out.                            *)

Obj(id, ellipsoid, transform) ==
    [def |-> TRUE, id |-> id, ellipsoid |-> ellipsoid, transform |-> transform]

\* undefined
NoDatum == [def |-> FALSE, id |-> "", ellipsoid |-> "", transform |-> <<>>]

\* the keys of `ellipsoids`, which are also the keys of `datums`
EllipsoidNames ==
    { "WGS84", "Airy1830", "AiryModified", "Bessel1841", "Clarke1866",
      "Clarke1880IGN", "GRS80", "Intl1924", "WGS72" }

\* the object literal `datums`: each entry is { a, b, f }
DatumsLiteral == [n \in EllipsoidNames |-> Obj("datums." \o n, "", <<>>)]

\* the objects a caller can build: datums, a datum without transform, an
\* object without ellipsoid, a datum whose transform is a shift
Zero7 == <<0, 0, 0, 0, 0, 0, 0>>
UserWGS84 == Obj("u1", "WGS84", Zero7)
UserOSGB36 == Obj("u2", "Airy1830", <<-4, 1, -5, 2, -1, -2, -8>>)
UserED50 == Obj("u3", "Intl1924", <<9, 6, 8, -1, 0, 0, 3>>)
UserNoTransform == Obj("u4", "GRS80", <<>>)
UserNoEllipsoid == Obj("u5", "", <<1, 1, 1, 0, 0, 0, 0>>)
UserShift == Obj("u6", "Clarke1866", <<7, -3, 2, 0, 0, 0, 0>>)
UserObjects ==
    {UserWGS84, UserOSGB36, UserED50, UserNoTransform, UserNoEllipsoid,
     UserShift}

\* a == b for two objects or undefined
SameObject(a, b) == IF a.def /\ b.def THEN a.id = b.id ELSE a.def = b.def

\* mutant: any object passes
HasEllipsoid_AnyObject(datum) == datum.def

\* the test !(!datum || datum.ellipsoid == undefined)
HasEllipsoid(datum) == datum.def /\ datum.ellipsoid # ""

\* a Cartesian_Datum object: _datum is NoDatum when the property is unset
CartesianObj(x, y, z, datum) == [x |-> x, y |-> y, z |-> z, datum |-> datum]
NoCartesianObj == CartesianObj(PConst(0), PConst(0), PConst(0), NoDatum)

\* a LatLonEllipsoidal_Datum object
LatLonObj(x, y, z, datum) == [x |-> x, y |-> y, z |-> z, datum |-> datum]

\* the outcome of a call: what it returns or throws, the intermediate point
\* it went through (if any), and its receiver `this` as the call leaves it
GReturn(c, this) ==
    [kind |-> "return", err |-> "", msg |-> "", point |-> c,
     via |-> NoCartesianObj, self |-> this]
GThrow(e, m, this) ==
    [kind |-> "throw", err |-> e, msg |-> m, point |-> NoCartesianObj,
     via |-> NoCartesianObj, self |-> this]
NoGOutcome ==
    [kind |-> "none", err |-> "", msg |-> "", point |-> NoCartesianObj,
     via |-> NoCartesianObj, self |-> NoCartesianObj]

\* the outcome out of a call that went through the point c
Via(out, c) == [out EXCEPT !.via = c]

UnrecognisedDatum(this) == GThrow("TypeError", "unrecognised datum", this)

\* reading a property of undefined (t[0], transform.map)
GUndefinedRead(this) ==
    GThrow("TypeError", "cannot read properties of undefined", this)

\* new Cartesian_Datum(x, y, z, datum)
Cartesian_Datum(x, y, z, datum) ==
    IF datum.def /\ datum.ellipsoid = ""
    THEN UnrecognisedDatum(NoCartesianObj)
    ELSE GReturn(CartesianObj(x, y, z, datum), NoCartesianObj)

\* new LatLonEllipsoidal_Datum(lat, lon, height, datum): an undefined datum
\* takes the default datums.WGS84
LatLonEllipsoidal_Datum(reg, x, y, z, datumArg) ==
    LET datum == IF datumArg.def THEN datumArg ELSE reg["WGS84"]
    IN  IF ~HasEllipsoid(datum)
        THEN UnrecognisedDatum(NoCartesianObj)
        ELSE GReturn(LatLonObj(x, y, z, datum), NoCartesianObj)

\* Cartesian_Datum.applyTransform(t), for an array t: the new point has no
\* datum
applyTransform_Datum(c, t) ==
    LET tx == PConst(t[1])
        ty == PConst(t[2])
        tz == PConst(t[3])
        s  == PAdd(PEps(t[4]), PConst(1))
        rx == PKap(t[5])
        ry == PKap(t[6])
        rz == PKap(t[7])
        x2 == PAdd(PSub(PAdd(tx, PMul(c.x, s)), PMul(c.y, rz)), PMul(c.z, ry))
        y2 == PSub(PAdd(PAdd(ty, PMul(c.x, rz)), PMul(c.y, s)), PMul(c.z, rx))
        z2 == PAdd(PAdd(PSub(tz, PMul(c.x, ry)), PMul(c.y, rx)), PMul(c.z, s))
    IN  CartesianObj(x2, y2, z2, NoDatum)

\* transform.map(p => -p)
NegateAll(t) == [i \in DOMAIN t |-> 0 - t[i]]

\* the last two statements of convertDatum: oldCartesian.applyTransform(
\* transform), then the datum setter on the new point, with a toDatum that
\* passed the first test
TransformAndTag(oldCartesian, transform, toDatum, this) ==
    IF transform = <<>> THEN GUndefinedRead(this)
    ELSE GReturn([applyTransform_Datum(oldCartesian, transform)
                      EXCEPT !.datum = toDatum], this)

\* a call of convertDatum with what it did: its outcome, the branch it
\* took followed by the branches of the call it made, and the number of
\* transforms applied
Traced(out, path, transforms) == [out |-> out, path |-> path, transforms |-> transforms]
TraceOf(t) == [path |-> t.path, transforms |-> t.transforms]
NoGTrace == [path |-> <<>>, transforms |-> 0]

\* the last two statements of convertDatum, counted
TransformAndTag_Traced(oldCartesian, transform, toDatum, this, path, before) ==
    Traced(TransformAndTag(oldCartesian, transform, toDatum, this), path,
           IF transform = <<>> THEN before ELSE before + 1)

RECURSIVE convertDatum_Traced(_, _, _)

\* this.convertDatum(datums.WGS84)
ViaWGS84(reg, this) == convertDatum_Traced(reg, this, reg["WGS84"])

\* Cartesian_Datum.convertDatum(toDatum); <<>> is a transform that == null
convertDatum_Traced(reg, this, toDatum) ==
    IF ~HasEllipsoid(toDatum) THEN Traced(UnrecognisedDatum(this), <<"refused">>, 0)
    ELSE IF ~this.datum.def
    THEN Traced(GThrow("TypeError", "cartesian coordinate has no datum", this),
                <<"refused">>, 0)
    ELSE LET fromWGS84 == SameObject(this.datum, reg["WGS84"])
             toWGS84 == SameObject(toDatum, reg["WGS84"])
             first == IF fromWGS84 THEN toDatum.transform ELSE <<>>
         IN  IF toWGS84 /\ this.datum.transform = <<>>
             THEN Traced(GUndefinedRead(this), <<"toWGS84">>, 0)
             ELSE LET transform ==
                          IF toWGS84 THEN NegateAll(this.datum.transform)
                          ELSE first
                  IN  IF transform = <<>>
                      THEN LET nested == ViaWGS84(reg, this)
                               viaWGS84 == nested.out
                               path == <<"nested">> \o nested.path
                           IN  IF viaWGS84.kind = "throw"
                               THEN Traced(viaWGS84, path, nested.transforms)
                               ELSE LET t == TransformAndTag_Traced(viaWGS84.point,
                                                 toDatum.transform, toDatum,
                                                 viaWGS84.self, path,
                                                 nested.transforms)
                                    IN  [t EXCEPT !.out = Via(t.out, viaWGS84.point)]
                      ELSE TransformAndTag_Traced(this, transform, toDatum, this,
                               <<IF toWGS84 THEN "toWGS84" ELSE "fromWGS84">>, 0)

\* what convertDatum returns or throws
convertDatum(reg, this, toDatum) == convertDatum_Traced(reg, this, toDatum).out

\* mutant: the datum is not passed on
toCartesian_Datum_Untagged(p) == Cartesian_Datum(p.x, p.y, p.z, NoDatum)

\* LatLonEllipsoidal_Datum.toCartesian()
toCartesian_Datum(p) == Cartesian_Datum(p.x, p.y, p.z, p.datum)

\* Cartesian_Datum.toLatLon(), without the deprecated argument
toLatLon_Datum(reg, c) ==
    LET datum == IF c.datum.def THEN c.datum ELSE reg["WGS84"]
    IN  IF ~HasEllipsoid(datum) THEN UnrecognisedDatum(c)
        ELSE [LatLonEllipsoidal_Datum(reg, c.x, c.y, c.z, c.datum)
                  EXCEPT !.self = c]

\* c.convertDatum(toDatum).convertDatum(c.datum)
ThereAndBack(reg, c, toDatum) ==
    LET there == convertDatum(reg, c, toDatum)
    IN  IF there.kind = "throw" THEN there
        ELSE Via([convertDatum(reg, there.point, c.datum) EXCEPT !.self = c],
                 there.point)

\* Cartesian_Datum.toLatLon(deprecatedDatum): a defined argument goes
\* through the datum setter of the receiver first
toLatLon_Deprecated(reg, c, deprecatedDatum) ==
    IF ~deprecatedDatum.def THEN toLatLon_Datum(reg, c)
    ELSE IF ~HasEllipsoid(deprecatedDatum) THEN UnrecognisedDatum(c)
    ELSE toLatLon_Datum(reg, [c EXCEPT !.datum = deprecatedDatum])

\* LatLonEllipsoidal_Datum.convertDatum(toDatum)
convertDatum_LatLon(reg, this, toDatum) ==
    IF ~HasEllipsoid(toDatum) THEN UnrecognisedDatum(this)
    ELSE LET oldCartesian == toCartesian_Datum(this)
         IN  IF oldCartesian.kind = "throw"
             THEN [oldCartesian EXCEPT !.self = this]
             ELSE LET newCartesian ==
                          convertDatum(reg, oldCartesian.point, toDatum)
                  IN  IF newCartesian.kind = "throw"
                      THEN [newCartesian EXCEPT !.self = this]
                      ELSE Via([toLatLon_Datum(reg, newCartesian.point)
                                    EXCEPT !.self = this],
                               newCartesian.point)

\* toCartesian() followed by toLatLon() on a LatLonEllipsoidal_Datum
RoundTrip_Datum(reg, p) ==
    LET c == toCartesian_Datum(p)
    IN  IF c.kind = "throw" THEN [c EXCEPT !.self = p]
        ELSE Via([toLatLon_Datum(reg, c.point) EXCEPT !.self = p], c.point)

\* get epoch() of a LatLonEllipsoidal_ReferenceFrame
EpochOf_LatLon(p) == IF p.epoch # 0 THEN p.epoch ELSE p.frame.epoch

\* new LatLonEllipsoidal_ReferenceFrame(lat, lon, height, referenceFrame,
\* epoch), for a numeric epoch or none (0): an undefined frame takes the
\* default referenceFrames.ITRF2014
LatLonEllipsoidal_ReferenceFrame(x, y, z, referenceFrame, epoch) ==
    LET frame == IF referenceFrame.def THEN referenceFrame ELSE ITRF2014
    IN  IF ~frame.hasEpoch
        THEN GThrow("TypeError", "unrecognised reference frame", NoCartesian)
        ELSE GReturn([x |-> x, y |-> y, z |-> z, frame |-> frame,
                      epoch |-> epoch], NoCartesian)

\* LatLonEllipsoidal_ReferenceFrame.toCartesian()
toCartesian_Frame(p) ==
    Cartesian_ReferenceFrame(p.x, p.y, p.z, p.frame, EpochOf_LatLon(p))

\* Cartesian_ReferenceFrame.toLatLon()
toLatLon_Frame(c) ==
    IF ~c.frame.def
    THEN GThrow("Error", "cartesian reference frame not defined", c)
    ELSE [LatLonEllipsoidal_ReferenceFrame(c.x, c.y, c.z, c.frame, EpochOf(c))
              EXCEPT !.self = c]

\* toCartesian() followed by toLatLon() on a LatLonEllipsoidal_ReferenceFrame
RoundTrip_Frame(p) ==
    LET c == toCartesian_Frame(p)
    IN  Via([toLatLon_Frame(c) EXCEPT !.self = p], c)

\* the outcome o of Cartesian_ReferenceFrame.convertReferenceFrame on the
\* receiver this, in the form of the outcomes above
OutcomeOf(o, this) ==
    [kind |-> o.kind, err |-> o.err, msg |-> o.msg, point |-> o.point,
     via |-> NoCartesian, self |-> this]

\* LatLonEllipsoidal_ReferenceFrame.convertReferenceFrame(toReferenceFrame)
convertReferenceFrame_LatLon(table, this, toReferenceFrame) ==
    IF ~toReferenceFrame.def \/ ~toReferenceFrame.hasEpoch
    THEN GThrow("TypeError", "unrecognised reference frame", this)
    ELSE LET oldCartesian == toCartesian_Frame(this)
             newCartesian ==
                 convertReferenceFrame(table, oldCartesian, toReferenceFrame)
         IN  IF newCartesian.kind = "throw"
             THEN OutcomeOf(newCartesian, this)
             ELSE Via([toLatLon_Frame(newCartesian.point) EXCEPT !.self = this],
                      newCartesian.point)

\* the keys of `datums` a caller assigns to
AssignKeys == {"WGS84"}

\* the datum objects that exist: those a caller builds and the entries of
\* the registry
DatumObjects(reg) == UserObjects \cup {reg[n] : n \in EllipsoidNames}

\* the arguments passed for a datum
DatumArgs(reg) == DatumObjects(reg) \cup {NoDatum}

\* the Cartesian_Datum points that exist: the constructor and the setter
\* refuse an object without ellipsoid
CartesianPoints(reg) ==
    { CartesianObj(PConst(c[1]), PConst(c[2]), PConst(c[3]), d) :
          c \in Coordinates,
          d \in {e \in DatumArgs(reg) : ~e.def \/ HasEllipsoid(e)} }

\* the LatLonEllipsoidal_Datum points that exist
LatLonPoints(reg) ==
    { LatLonObj(PConst(c[1]), PConst(c[2]), PConst(c[3]), d) :
          c \in Coordinates, d \in {e \in DatumObjects(reg) : HasEllipsoid(e)} }

\* the LatLonEllipsoidal_ReferenceFrame points that exist
LatLonFramePoints ==
    { [x |-> PConst(c[1]), y |-> PConst(c[2]), z |-> PConst(c[3]),
       frame |-> f, epoch |-> e] :
          c \in Coordinates, f \in referenceFrames, e \in ObservationEpochs }

NoGCall == [op |-> "none", self |-> NoCartesianObj, to |-> NoDatum]

\* datums[k] = d, through the static getter `datums`
AssignDatum ==
    /\ gpc = "idle"
    /\ \E k \in AssignKeys, d \in UserObjects :
          /\ datums[k] # d
          /\ datums' = [datums EXCEPT ![k] = d]
    /\ UNCHANGED <<gpc, gcall, gres, gtrace, vvars, fvars, pvars, bvars>>

\* datums[k].ellipsoid = e, through the static getter `datums`: the entry
\* is frozen, the assignment throws in strict code and is ignored otherwise
AssignEntryProperty ==
    /\ gpc = "idle"
    /\ \E k \in AssignKeys, e \in EllipsoidNames, strict \in BOOLEAN :
          /\ gcall' = [op |-> "assignProperty", self |-> NoCartesianObj,
                       to |-> Obj(datums[k].id, e, datums[k].transform)]
          /\ gres' = IF strict
                     THEN GThrow("TypeError", "cannot assign to read only property",
                                 NoCartesianObj)
                     ELSE GReturn(NoCartesianObj, NoCartesianObj)
    /\ gpc' = "done"
    /\ UNCHANGED <<datums, gtrace, vvars, fvars, pvars, bvars>>

\* new LatLonEllipsoidal_Datum(lat, lon, height, datum)
CallNewLatLon ==
    /\ gpc = "idle"
    /\ \E c \in Coordinates, datum \in DatumArgs(datums) :
          /\ gcall' = [op |-> "new", self |-> NoCartesianObj, to |-> datum]
          /\ gres' = LatLonEllipsoidal_Datum(datums, PConst(c[1]), PConst(c[2]),
                                             PConst(c[3]), datum)
    /\ gpc' = "done"
    /\ UNCHANGED <<datums, gtrace, vvars, fvars, pvars, bvars>>

\* Cartesian_Datum.convertDatum(toDatum)
CallConvertDatum ==
    /\ gpc = "idle"
    /\ \E this \in CartesianPoints(datums), toDatum \in DatumArgs(datums) :
          /\ gcall' = [op |-> "convertDatum", self |-> this, to |-> toDatum]
          /\ gres' = convertDatum(datums, this, toDatum)
          /\ gtrace' = TraceOf(convertDatum_Traced(datums, this, toDatum))
    /\ gpc' = "done"
    /\ UNCHANGED <<datums, vvars, fvars, pvars, bvars>>

\* LatLonEllipsoidal_Datum.convertDatum(toDatum)
CallConvertDatum_LatLon ==
    /\ gpc = "idle"
    /\ \E this \in LatLonPoints(datums), toDatum \in DatumArgs(datums) :
          /\ gcall' = [op |-> "convertDatum_LatLon", self |-> this, to |-> toDatum]
          /\ gres' = convertDatum_LatLon(datums, this, toDatum)
    /\ gpc' = "done"
    /\ UNCHANGED <<datums, gtrace, vvars, fvars, pvars, bvars>>

\* Cartesian_ReferenceFrame.convertReferenceFrame(toReferenceFrame)
CallConvertFrame ==
    /\ gpc = "idle"
    /\ \E this \in ThisPoints, toReferenceFrame \in TargetFrames :
          /\ gcall' = [op |-> "convertReferenceFrame", self |-> this,
                       to |-> toReferenceFrame]
          /\ gres' = OutcomeOf(convertReferenceFrame(txParams, this,
                                                     toReferenceFrame), this)
    /\ gpc' = "done"
    /\ UNCHANGED <<datums, gtrace, vvars, fvars, pvars, bvars>>

\* LatLonEllipsoidal_ReferenceFrame.convertReferenceFrame(toReferenceFrame)
CallConvertFrame_LatLon ==
    /\ gpc = "idle"
    /\ \E this \in LatLonFramePoints, toReferenceFrame \in TargetFrames :
          /\ gcall' = [op |-> "convertReferenceFrame_LatLon", self |-> this,
                       to |-> toReferenceFrame]
          /\ gres' = convertReferenceFrame_LatLon(txParams, this, toReferenceFrame)
    /\ gpc' = "done"
    /\ UNCHANGED <<datums, gtrace, vvars, fvars, pvars, bvars>>

\* p.toCartesian().toLatLon() on a LatLonEllipsoidal_Datum
CallRoundTrip_Datum ==
    /\ gpc = "idle"
    /\ \E p \in LatLonPoints(datums) :
          /\ gcall' = [op |-> "roundTrip_Datum", self |-> p, to |-> NoDatum]
          /\ gres' = RoundTrip_Datum(datums, p)
    /\ gpc' = "done"
    /\ UNCHANGED <<datums, gtrace, vvars, fvars, pvars, bvars>>

\* Cartesian_Datum.toLatLon(deprecatedDatum)
CallToLatLon_Datum ==
    /\ gpc = "idle"
    /\ \E this \in CartesianPoints(datums), deprecatedDatum \in DatumArgs(datums) :
          /\ gcall' = [op |-> "toLatLon", self |-> this, to |-> deprecatedDatum]
          /\ gres' = toLatLon_Deprecated(datums, this, deprecatedDatum)
    /\ gpc' = "done"
    /\ UNCHANGED <<datums, gtrace, vvars, fvars, pvars, bvars>>

\* c.convertDatum(toDatum).convertDatum(c.datum) on a Cartesian_Datum with
\* a datum
CallThereAndBack ==
    /\ gpc = "idle"
    /\ \E c \in CartesianPoints(datums), toDatum \in DatumArgs(datums) :
          /\ c.datum.def
          /\ gcall' = [op |-> "thereAndBack", self |-> c, to |-> toDatum]
          /\ gres' = ThereAndBack(datums, c, toDatum)
    /\ gpc' = "done"
    /\ UNCHANGED <<datums, gtrace, vvars, fvars, pvars, bvars>>

\* p.toCartesian().toLatLon() on a LatLonEllipsoidal_ReferenceFrame
CallRoundTrip_Frame ==
    /\ gpc = "idle"
    /\ \E p \in LatLonFramePoints :
          /\ gcall' = [op |-> "roundTrip_Frame", self |-> p, to |-> NoDatum]
          /\ gres' = RoundTrip_Frame(p)
    /\ gpc' = "done"
    /\ UNCHANGED <<datums, gtrace, vvars, fvars, pvars, bvars>>


----------------------------------------------------------------------------
(* Geodetic points (src/latlon-ellipsoidal.js, src/unnamed/part_004).      *)
(*                                                                         *)
(* Degrees are counted in quanta of 1/DegQ degree and rounded as above.    *)

\* a string such as '51° N': not a number for Number(), n for Dms.parse
DmsStr(n) == [t |-> "string", k |-> "dms", n |-> n]

\* Dms.parse(dms)
DmsParse(v) ==
    CASE v.t = "number" /\ v.k = "fin" -> v
      [] v.t = "string" /\ v.k \in {"dec", "dms"} -> NumV(v.n)
      [] OTHER -> NaNV

\* mutant: a value out of range is clamped
wrap90_Clamped(degrees) ==
    IF degrees < -90 * DegQ THEN -90 * DegQ
    ELSE IF degrees > 90 * DegQ THEN 90 * DegQ
    ELSE degrees

\* Dms.wrap90(degrees), degrees a finite number
wrap90(degrees) ==
    IF -90 * DegQ <= degrees /\ degrees <= 90 * DegQ THEN degrees
    ELSE LET x == degrees
             a == 90
             p == 360
             m == JsRem(FAdd(JsRem(FAdd(x, -((p * DegQ) \div 4)), p * DegQ),
                             p * DegQ), p * DegQ)
         IN  FAdd(FMul(Abs(FAdd(m, -((p * DegQ) \div 2))), (4 * a) \div p),
                  -(a * DegQ))

\* the test -180 <= degrees && degrees <= 180
Wrap180InRange(degrees) ==
    -180 * DegQ <= degrees /\ degrees <= 180 * DegQ

\* mutant: the value is returned as it is
wrap180_Unwrapped(degrees) == degrees

\* Dms.wrap180(degrees), degrees a finite number
wrap180(degrees) ==
    IF Wrap180InRange(degrees) THEN degrees
    ELSE LET x == degrees
             a == 180
             p == 360
             m == JsRem(FAdd(JsRem(FAdd(FDiv(FMul(x, 2 * a), p),
                                        -((p * DegQ) \div 2)), p * DegQ),
                             p * DegQ), p * DegQ)
         IN  FAdd(m, -(a * DegQ))

\* wrap90 and wrap180 of a number value: every comparison with NaN is
\* false, Infinity % p and NaN % p are NaN
Wrap90V(v) == IF v.k = "fin" THEN NumV(wrap90(v.n)) ELSE NaNV
Wrap180V(v) == IF v.k = "fin" THEN NumV(wrap180(v.n)) ELSE NaNV

\* lat == null
IsNullish(v) == v.t \in {"null", "undefined"}

\* a LatLonEllipsoidal object: _lat and _lon are number values
PointObj(lat, lon) == [def |-> TRUE, lat |-> lat, lon |-> lon]
NoPt == [def |-> FALSE, lat |-> NaNV, lon |-> NaNV]

\* new LatLonEllipsoidal(lat, lon): the point, or NoPt for a TypeError
LatLonEllipsoidal(lat, lon) ==
    IF IsNaNJs(lat) \/ IsNullish(lat) THEN NoPt
    ELSE IF IsNaNJs(lon) \/ IsNullish(lon) THEN NoPt
    ELSE PointObj(Wrap90V(ToNumber(lat)), Wrap180V(ToNumber(lon)))

\* constructor(lat, lon, height = 0): the default stands for undefined
HeightOrDefault(height) == IF height.t = "undefined" THEN NumV(0) ELSE height

\* the third test of the constructor
InvalidHeight(height) ==
    IsNaNJs(HeightOrDefault(height)) \/ IsNullish(HeightOrDefault(height))

\* new LatLonEllipsoidal(lat, lon, height): the point, or NoPt for a TypeError
LatLonEllipsoidal_Height(lat, lon, height) ==
    IF InvalidHeight(height) THEN NoPt ELSE LatLonEllipsoidal(lat, lon)

\* the value the lat / latitude setters store
LatToStore(lat) ==
    IF IsNaNJs(lat) THEN Wrap90V(DmsParse(lat)) ELSE Wrap90V(ToNumber(lat))

\* the value the lon / lng / longitude setters store
LonToStore(lon) ==
    IF IsNaNJs(lon) THEN Wrap180V(DmsParse(lon)) ELSE Wrap180V(ToNumber(lon))

\* the classes of a double: NaN, an infinity, a finite number, with the
\* sign s (0 for zero)
CNaN == [k |-> "nan", s |-> 0]
CInf(s) == [k |-> "inf", s |-> s]
CFin(s) == [k |-> "fin", s |-> s]

\* a / b
CDiv(a, b) ==
    CASE a.k = "nan" \/ b.k = "nan" -> CNaN
      [] a.k = "inf" /\ b.k = "inf" -> CNaN
      [] a.k = "inf" -> CInf(IF b.s < 0 THEN -a.s ELSE a.s)
      [] b.k = "inf" -> CFin(0)
      [] b.s = 0 -> IF a.s = 0 THEN CNaN ELSE CInf(a.s)
      [] OTHER -> CFin(a.s * b.s)

\* a * b
CMul(a, b) ==
    CASE a.k = "nan" \/ b.k = "nan" -> CNaN
      [] a.k = "inf" /\ b.s = 0 -> CNaN
      [] b.k = "inf" /\ a.s = 0 -> CNaN
      [] a.k = "inf" \/ b.k = "inf" -> CInf(a.s * b.s)
      [] OTHER -> CFin(a.s * b.s)

\* 1 + a, for a not negative
COnePlus(a) == IF a.k = "fin" THEN CFin(1) ELSE a

\* Math.sqrt(1 + a * a)
CRoot(a) == COnePlus(CMul(a, a))

Sign(n) == IF n > 0 THEN 1 ELSE IF n < 0 THEN -1 ELSE 0

\* the angles Math.atan2 gives, in degrees, for a positive first argument
\* and a second argument of either sign
UpperAngles == {1, 45 * DegQ, 90 * DegQ, 135 * DegQ, 180 * DegQ - 1}

\* a component whose square overflows to Infinity
Huge == 2

\* x * x
CSquare(x) == IF x = 0 THEN CFin(0) ELSE IF Abs(x) >= Huge THEN CInf(1) ELSE CFin(1)

\* Math.sqrt(a + b), for a and b not negative
CRootSum(a, b) ==
    IF a.k = "inf" \/ b.k = "inf" THEN CInf(1)
    ELSE IF a.s = 0 /\ b.s = 0 THEN CFin(0) ELSE CFin(1)

\* p = Math.sqrt(x * x + y * y)
AxisDistance(x, y) == CRootSum(CSquare(x), CSquare(y))

\* cos(beta) of Cartesian.toLatLon for the point (x, y, z)
cosBeta(x, y, z) ==
    LET p == AxisDistance(x, y)
        R == CRootSum(CMul(p, p), CSquare(z))
        tanB == CMul(CDiv(CFin(Sign(z)), p), COnePlus(CDiv(CFin(1), R)))
        sinB == CDiv(tanB, CRoot(tanB))
    IN  CDiv(sinB, tanB)

\* mutant: the geocentric latitude of a point of the axis
AxisLatitude_Pole(z) == 90 * DegQ * Sign(z)

\* the latitude taken when cos(beta) is NaN
AxisLatitude(z) == 0

\* Cartesian.toLatLon: the values phi.toDegrees() can take for the point
\* (x, y, z), of which only the signs and the overflow matter
Latitudes(x, y, z) ==
    IF cosBeta(x, y, z).k = "nan" THEN {AxisLatitude(z)}
    ELSE {Sign(z) * u : u \in UpperAngles}

\* a + b; of a finite sum only the class is followed
CAdd(a, b) ==
    CASE a.k = "nan" \/ b.k = "nan" -> CNaN
      [] a.k = "inf" /\ b.k = "inf" -> IF a.s = b.s THEN a ELSE CNaN
      [] a.k = "inf" -> a
      [] b.k = "inf" -> b
      [] OTHER -> CFin(IF a.s = b.s THEN a.s ELSE 1)

\* Math.sin(phi) and Math.cos(phi) for phi of lat degrees: Math.cos of the
\* double nearest to pi/2 is not zero
SinClass(lat) == CFin(Sign(lat))
CosClass(lat) == CFin(1)

\* h = p * cos(phi) + z * sin(phi) - a * a / nu, for phi of lat degrees
HeightClass(x, y, z, lat) ==
    CAdd(CAdd(CMul(AxisDistance(x, y), CosClass(lat)),
              CMul(CFin(Sign(z)), SinClass(lat))),
         CFin(-1))

\* the numbers of a class that the model follows
HeightsOf(c) ==
    CASE c.k = "nan" -> {NaNV}
      [] c.k = "inf" -> {InfV}
      [] OTHER -> {NumV(-1), NumV(0), NumV(1)}

\* Cartesian.toLatLon: the values lambda.toDegrees() can take
Longitudes(x, y) ==
    CASE y = 0 -> IF x < 0 THEN {180 * DegQ} ELSE {0}
      [] x = 0 -> {Sign(y) * 90 * DegQ}
      [] x > 0 -> {Sign(y) * 1, Sign(y) * 45 * DegQ, Sign(y) * (90 * DegQ - 1)}
      [] OTHER -> {Sign(y) * (90 * DegQ + 1), Sign(y) * 135 * DegQ,
                   Sign(y) * (180 * DegQ - 1)}

\* the values passed as latitude or longitude
Degrees ==
    { 0, 1, 90 * DegQ, -90 * DegQ, 90 * DegQ + 1, -91 * DegQ, 180 * DegQ,
      -180 * DegQ, 181 * DegQ, -181 * DegQ, 540 * DegQ, -540 * DegQ }
PointValues ==
    {NumV(n) : n \in Degrees} \cup
    {InfV, NaNV, DecStr(91 * DegQ), DmsStr(-45 * DegQ), TxtStr, EmptyStr,
     NullV, UndefV}

\* the whole degrees passed to Dms.wrap90
MaxWhole == 720
WholeDegrees == {x * DegQ : x \in -MaxWhole..MaxWhole}

\* the components of the Cartesian points converted
Components == {-Huge, -1, 0, 1, Huge}

LatSetters == {"lat", "latitude"}
LonSetters == {"lon", "lng", "longitude"}

NoPCall == [op |-> "none", a |-> UndefV, b |-> UndefV, c |-> UndefV]

\* the values passed as height
HeightValues == {UndefV, NullV, NumV(5), TxtStr}

\* new LatLonEllipsoidal(lat, lon, height)
CallNew ==
    /\ pres = "none"
    /\ \E lat \in PointValues, lon \in PointValues, height \in HeightValues :
          /\ pcall' = [op |-> "new", a |-> lat, b |-> lon, c |-> height]
          /\ pt' = LatLonEllipsoidal_Height(lat, lon, height)
          /\ pheight' = IF pt'.def THEN ToNumber(HeightOrDefault(height)) ELSE UndefV
    /\ pres' = IF pt'.def THEN "ok" ELSE "TypeError"
    /\ pclean' = TRUE
    /\ UNCHANGED <<vvars, fvars, dvars, bvars>>

\* Dms.wrap90(degrees): the call record keeps the argument in a and the
\* result in b
CallWrap90 ==
    /\ pres = "none"
    /\ \E degrees \in WholeDegrees :
          pcall' = [op |-> "wrap90", a |-> NumV(degrees),
                    b |-> Wrap90V(NumV(degrees)), c |-> UndefV]
    /\ pres' = "ok"
    /\ UNCHANGED <<pt, pclean, pheight, vvars, fvars, dvars, bvars>>

\* p.lat = v, p.latitude = v: the value is stored before it is tested
CallSetLat ==
    /\ pt.def
    /\ \E op \in LatSetters, v \in PointValues :
          /\ pcall' = [op |-> op, a |-> v, b |-> UndefV, c |-> UndefV]
          /\ pt' = [pt EXCEPT !.lat = LatToStore(v)]
    /\ pres' = IF pt'.lat.k = "nan" THEN "TypeError" ELSE "ok"
    /\ pclean' = (pclean /\ pres' = "ok")
    /\ UNCHANGED pheight
    /\ UNCHANGED <<vvars, fvars, dvars, bvars>>

\* p.lon = v, p.lng = v, p.longitude = v
CallSetLon ==
    /\ pt.def
    /\ \E op \in LonSetters, v \in PointValues :
          /\ pcall' = [op |-> op, a |-> v, b |-> UndefV, c |-> UndefV]
          /\ pt' = [pt EXCEPT !.lon = LonToStore(v)]
    /\ pres' = IF pt'.lon.k = "nan" THEN "TypeError" ELSE "ok"
    /\ pclean' = (pclean /\ pres' = "ok")
    /\ UNCHANGED pheight
    /\ UNCHANGED <<vvars, fvars, dvars, bvars>>

\* p.height = v: Number(v) is stored before it is tested
CallSetHeight ==
    /\ pt.def
    /\ \E v \in HeightValues :
          /\ pcall' = [op |-> "height", a |-> v, b |-> UndefV, c |-> UndefV]
          /\ pheight' = ToNumber(v)
    /\ pres' = IF pheight'.k = "nan" THEN "TypeError" ELSE "ok"
    /\ pclean' = (pclean /\ pres' = "ok")
    /\ UNCHANGED pt
    /\ UNCHANGED <<vvars, fvars, dvars, bvars>>

\* new Cartesian(x, y, z).toLatLon(): the point it constructs
CallToLatLon ==
    /\ pres = "none"
    /\ \E x \in Components, y \in Components, z \in Components :
          /\ pcall' = [op |-> "toLatLon", a |-> NumV(x), b |-> NumV(y),
                       c |-> NumV(z)]
          /\ \E lat \in Latitudes(x, y, z), lon \in Longitudes(x, y) :
              \E h \in HeightsOf(HeightClass(x, y, z, lat)) :
                /\ pt' = LatLonEllipsoidal_Height(NumV(lat), NumV(lon), h)
                /\ pheight' = IF pt'.def THEN h ELSE UndefV
    /\ pres' = IF pt'.def THEN "ok" ELSE "TypeError"
    /\ pclean' = TRUE
    /\ UNCHANGED <<vvars, fvars, dvars, bvars>>

----------------------------------------------------------------------------
(* Specifications *)

\* no call made yet, the table empty
Init ==
    /\ pc = "idle"
    /\ call = NoCall
    /\ iterations = 0
    /\ passes = 0
    /\ lastDelta = "none"
    /\ inv = NoInverse
    /\ dargs = [distance |-> UndefV, bearing |-> UndefV]
    /\ dres = NoOutcome
    /\ res = NoOutcome
    /\ fpc = "idle"
    /\ fcall = NoFCall
    /\ fres = NoFOutcome
    /\ txParams = <<>>
    /\ datums = DatumsLiteral
    /\ gpc = "idle"
    /\ gcall = NoGCall
    /\ gres = NoGOutcome
    /\ gtrace = NoGTrace
    /\ pt = NoPt
    /\ pcall = NoPCall
    /\ pres = "none"
    /\ pclean = TRUE
    /\ pheight = UndefV
    /\ pc_VB = "idle"
    /\ call_VB = NoCall_VB
    /\ iterations_VB = 0
    /\ passes_VB = 0
    /\ lastDelta_VB = "none"
    /\ res_VB = NoOutcome

\* no call made yet, the table one of Tables
FInit ==
    /\ pc = "idle"
    /\ call = NoCall
    /\ iterations = 0
    /\ passes = 0
    /\ lastDelta = "none"
    /\ inv = NoInverse
    /\ dargs = [distance |-> UndefV, bearing |-> UndefV]
    /\ dres = NoOutcome
    /\ res = NoOutcome
    /\ fpc = "idle"
    /\ fcall = NoFCall
    /\ fres = NoFOutcome
    /\ txParams \in Tables
    /\ datums = DatumsLiteral
    /\ gpc = "idle"
    /\ gcall = NoGCall
    /\ gres = NoGOutcome
    /\ gtrace = NoGTrace
    /\ pt = NoPt
    /\ pcall = NoPCall
    /\ pres = "none"
    /\ pclean = TRUE
    /\ pheight = UndefV
    /\ pc_VB = "idle"
    /\ call_VB = NoCall_VB
    /\ iterations_VB = 0
    /\ passes_VB = 0
    /\ lastDelta_VB = "none"
    /\ res_VB = NoOutcome

\* no call made yet, the registry as the module defines it
DInit ==
    /\ pc = "idle"
    /\ call = NoCall
    /\ iterations = 0
    /\ passes = 0
    /\ lastDelta = "none"
    /\ inv = NoInverse
    /\ dargs = [distance |-> UndefV, bearing |-> UndefV]
    /\ dres = NoOutcome
    /\ res = NoOutcome
    /\ fpc = "idle"
    /\ fcall = NoFCall
    /\ fres = NoFOutcome
    /\ txParams = <<>>
    /\ datums = DatumsLiteral
    /\ gpc = "idle"
    /\ gcall = NoGCall
    /\ gres = NoGOutcome
    /\ gtrace = NoGTrace
    /\ pt = NoPt
    /\ pcall = NoPCall
    /\ pres = "none"
    /\ pclean = TRUE
    /\ pheight = UndefV
    /\ pc_VB = "idle"
    /\ call_VB = NoCall_VB
    /\ iterations_VB = 0
    /\ passes_VB = 0
    /\ lastDelta_VB = "none"
    /\ res_VB = NoOutcome

\* no point constructed yet
PInit ==
    /\ pc = "idle"
    /\ call = NoCall
    /\ iterations = 0
    /\ passes = 0
    /\ lastDelta = "none"
    /\ inv = NoInverse
    /\ dargs = [distance |-> UndefV, bearing |-> UndefV]
    /\ dres = NoOutcome
    /\ res = NoOutcome
    /\ fpc = "idle"
    /\ fcall = NoFCall
    /\ fres = NoFOutcome
    /\ txParams = <<>>
    /\ datums = DatumsLiteral
    /\ gpc = "idle"
    /\ gcall = NoGCall
    /\ gres = NoGOutcome
    /\ gtrace = NoGTrace
    /\ pt = NoPt
    /\ pcall = NoPCall
    /\ pres = "none"
    /\ pclean = TRUE
    /\ pheight = UndefV
    /\ pc_VB = "idle"
    /\ call_VB = NoCall_VB
    /\ iterations_VB = 0
    /\ passes_VB = 0
    /\ lastDelta_VB = "none"
    /\ res_VB = NoOutcome

CallConvertReferenceFrame ==
    /\ fpc = "idle"
    /\ \E this \in ThisPoints, toReferenceFrame \in TargetFrames :
          /\ fcall' = [self |-> this, to |-> toReferenceFrame]
          /\ fres' = convertReferenceFrame(txParams, this, toReferenceFrame)
    /\ fpc' = "done"
    /\ UNCHANGED <<txParams, vvars, dvars, pvars, bvars>>

VNext ==
    \/ CallDirect
    \/ CallDestinationPoint
    \/ CallFinalBearingOn
    \/ CallIntermediatePointTo
    \/ CallDistanceTo
    \/ CallInitialBearingTo
    \/ CallFinalBearingTo
    \/ LoopPass
    \/ DirectFinish

FNext == CallConvertReferenceFrame

DNext ==
    \/ AssignDatum
    \/ AssignEntryProperty
    \/ CallNewLatLon
    \/ CallConvertDatum
    \/ CallConvertDatum_LatLon
    \/ CallConvertFrame
    \/ CallConvertFrame_LatLon
    \/ CallRoundTrip_Datum
    \/ CallRoundTrip_Frame
    \/ CallToLatLon_Datum
    \/ CallThereAndBack

Spec == Init /\ [][VNext]_vars

SpecFrame == FInit /\ [][FNext]_vars

SpecDatum == DInit /\ [][DNext]_vars

PNext ==
    \/ CallNew
    \/ CallWrap90
    \/ CallSetLat
    \/ CallSetLon
    \/ CallSetHeight
    \/ CallToLatLon

SpecPoint == PInit /\ [][PNext]_vars

BNext ==
    \/ CallDirect_VB
    \/ LoopPass_VB
    \/ DirectFinish_VB

SpecDirect_VB == Init /\ [][BNext]_vars

----------------------------------------------------------------------------
(* Properties of the Vincenty operations *)

DirectOps == {"direct", "destinationPoint", "finalBearingOn"}
InverseOps == {"DistanceTo", "InitialBearingTo", "FinalBearingTo"}

\* C1: direct(0, bearing) returns { point: this, finalBearing: NaN,
\* iterations: 0 } for every origin point (whatever its height) and every
\* bearing value (NaN included), and raises no error.
C1_ZeroDistance ==
    (call.op = "direct" /\ call.distance = NumV(0)) =>
        /\ pc = "done"
        /\ dres = DirectResult(call.self, NaNV, 0)
        /\ res = dres

C1_Witness ==
    /\ pc = "done" /\ call.op = "direct" /\ call.distance = NumV(0)
    /\ call.self.height # 0 /\ IsNaNJs(call.bearing)
    /\ res.kind = "return" /\ res.point = call.self

\* C2 (as claimed): direct() fails with RangeError on every call whose
\* origin has height != 0, whatever the distance and bearing.
C2_Original ==
    (call.op = "direct" /\ call.self.height # 0) =>
        (pc = "done" /\ dres = Throw("RangeError"))

\* C2 (amended): with an origin of height != 0, direct() fails with
\* RangeError exactly when the distance is neither NaN nor equal to 0 and
\* the bearing is not NaN; a NaN distance gives TypeError, a distance equal
\* to 0 returns the origin, a NaN bearing with a non-zero distance gives
\* TypeError.  No such call enters the sigma loop or returns a destination.
C2_OffSurface ==
    (call.op = "direct" /\ call.self.height # 0) =>
        /\ pc = "done"
        /\ passes = 0
        /\ dres = IF IsNaNJs(call.distance) THEN Throw("TypeError")
                  ELSE IF LooseEqZero(call.distance) THEN DirectResult(call.self, NaNV, 0)
                  ELSE IF IsNaNJs(call.bearing) THEN Throw("TypeError")
                  ELSE Throw("RangeError")

C2_Witness ==
    /\ pc = "done" /\ call.op = "direct" /\ call.self.height # 0
    /\ call.distance = NumV(1000) /\ call.bearing = NumV(0)
    /\ dres = Throw("RangeError")

\* the distance the direct solution tests against 0: destinationPoint and
\* finalBearingOn convert their arguments with Number() first
C3_Zero(op, d) == IF op = "direct" THEN LooseEqZero(d) ELSE LooseEqZero(ToNumber(d))

\* C3 (as claimed): direct, destinationPoint and finalBearingOn fail with
\* TypeError on every call in which the distance or the initial bearing is
\* not a number.
C3_Original ==
    (call.op \in DirectOps /\ (IsNaNJs(call.distance) \/ IsNaNJs(call.bearing))) =>
        (pc = "done" /\ res = Throw("TypeError"))

\* C3 (amended): direct, destinationPoint and finalBearingOn fail with
\* TypeError, before any computation, on every call in which the distance is
\* not a number, and on every call in which the initial bearing is not a
\* number and the distance is not equal to 0; with a distance equal to 0 a
\* bearing that is not a number is accepted and the call returns.
C3_FormatError ==
    (call.op \in DirectOps) =>
        /\ (IsNaNJs(call.distance) \/
              (IsNaNJs(call.bearing) /\ ~C3_Zero(call.op, call.distance))) =>
                (pc = "done" /\ passes = 0 /\ res = Throw("TypeError"))
        /\ (~IsNaNJs(call.distance) /\ C3_Zero(call.op, call.distance)) =>
                (pc = "done" /\ res.kind = "return")

C3_Witness ==
    /\ pc = "done" /\ call.op = "destinationPoint"
    /\ call.distance = NumV(1000) /\ call.bearing = TxtStr
    /\ call.self.height = 0 /\ res = Throw("TypeError")

\* C4: the sigma loop of direct() makes at most 100 passes; it goes on only
\* after a pass whose |sigma - sigma'| exceeds 1e-12, so a pass with
\* |sigma - sigma'| <= 1e-12 is the last one; and after 100 passes without
\* convergence the call raises EvalError and returns no destination.
C4_LoopBounded ==
    /\ passes <= 100
    /\ (pc = "loop" /\ passes > 0) => (lastDelta = "large" /\ iterations = passes)
    /\ (pc = "loop") => passes < 100
    /\ (lastDelta = "small") => (pc \in {"post", "done"} /\ iterations = passes - 1)
    /\ (passes = 100 /\ lastDelta = "large") =>
            (pc = "done" /\ dres = Throw("EvalError") /\ res = Throw("EvalError"))
    /\ (dres = Throw("EvalError")) => (passes = 100 /\ lastDelta = "large")

C4_Witness ==
    /\ pc = "done" /\ passes = 100 /\ lastDelta = "large"
    /\ dres = Throw("EvalError") /\ res.point = NoPoint

\* C5: every result the direct solution returns for a non-zero distance has
\* a final bearing b with 0 <= b < 360 degrees.
C5_BearingWrapped ==
    (dres.kind = "return" /\ ~LooseEqZero(dargs.distance)) =>
        (dres.num.k = "fin" /\ 0 <= dres.num.n /\ dres.num.n < 360 * DegQ)

C5_Witness ==
    /\ pc = "done" /\ dres.kind = "return" /\ passes > 0
    /\ dres.num = NumV(270 * DegQ)

\* C6: intermediatePointTo(other, fraction) returns this point for
\* fraction 0 and other for fraction 1; otherwise it takes distance and
\* initial bearing from the inverse solution and returns this point when
\* that bearing is NaN, else the destination of the direct solution at
\* distance * fraction along that bearing (an error of the inverse or of the
\* direct solution is passed on).
C6_Intermediate ==
    (pc = "done" /\ call.op = "intermediatePointTo") =>
        IF call.fraction = NumV(0) THEN res = ReturnPoint(call.self)
        ELSE IF call.fraction = NumV(FracQ) THEN res = ReturnPoint(call.other)
        ELSE IF inv.kind = "throw" THEN res = Throw(inv.err)
        ELSE IF inv.initialBearing.k = "nan" THEN res = ReturnPoint(call.self)
        ELSE /\ res.kind = dres.kind
             /\ res.kind = "throw" => res = dres
             /\ res.kind = "return" =>
                    /\ call.fraction.k = "fin"
                    /\ res = ReturnPoint(DestPoint(call.self,
                                NumV(DivNearest(inv.distance.n * call.fraction.n, FracQ)),
                                inv.initialBearing))

C6_Witness ==
    /\ pc = "done" /\ call.op = "intermediatePointTo"
    /\ call.fraction = NumV(1) /\ inv.distance = NumV(2000)
    /\ res.kind = "return" /\ res.point.tag = "dest"
    /\ res.point.s = NumV(DivNearest(2000, FracQ))

\* C7: when the inverse solution signals non-convergence, DistanceTo,
\* InitialBearingTo and FinalBearingTo return NaN instead of raising; an
\* error of any other kind raised by the inverse solution reaches the caller
\* unchanged.
C7_InverseCallers ==
    (pc = "done" /\ call.op \in InverseOps /\ inv.kind = "throw") =>
        IF inv.err = "EvalError" THEN res = ReturnNum(NaNV) ELSE res = Throw(inv.err)

C7_Witness ==
    /\ pc = "done" /\ call.op = "DistanceTo"
    /\ inv = InvThrow("EvalError") /\ res = ReturnNum(NaNV)

----------------------------------------------------------------------------
(* Properties of the reference-frame conversion *)

\* a finished call with a target frame that has an epoch, on a point that
\* has a frame
FValidCall ==
    fpc = "done" /\ fcall.to.def /\ fcall.to.hasEpoch /\ fcall.self.frame.def

\* the stored entry from frame name a to frame name b, or NoEntry
Stored(a, b) == Lookup(txParams, a \o <<Arrow>> \o b)

Negated(v) == [i \in DOMAIN v |-> 0 - v[i]]

SameXYZ(c, d) == c.x = d.x /\ c.y = d.y /\ c.z = d.z

\* the observation epoch of the point of the call
FObserved == IF fcall.self.epoch # 0 THEN fcall.self.epoch ELSE fcall.self.frame.epoch

\* the result is the point of the call transformed by the entry e, negated
\* or not, with dt = observation epoch - epoch of e
FSingle(e, negate) ==
    /\ fres.kind = "return" /\ ~fres.same
    /\ SameXYZ(fres.point,
               applyTransform(fcall.self,
                              IF negate THEN Negated(e.params) ELSE e.params,
                              IF negate THEN Negated(e.rates) ELSE e.rates,
                              FObserved - e.epoch))

\* what the claim says of a call that has a direct entry
FDirect ==
    LET fwd == Stored(fcall.self.frame.name, fcall.to.name)
        rev == Stored(fcall.to.name, fcall.self.frame.name)
    IN  /\ fwd.def => FSingle(fwd, FALSE)
        /\ (~fwd.def /\ rev.def) => FSingle(rev, TRUE)

\* C8: convertReferenceFrame to a target frame whose name equals the name of
\* the source frame returns the input point itself, with the same x, y, z,
\* frame and epoch, whatever the observation epoch and the table.
C8_SameName ==
    (FValidCall /\ fcall.self.frame.name = fcall.to.name) =>
        (fres.kind = "return" /\ fres.same /\ fres.point = fcall.self)

C8_Witness ==
    /\ FValidCall /\ fcall.self.frame = ITRF2014 /\ fcall.to = Frame(ITRF2014.name, 2020)
    /\ fcall.self.epoch = 2015 /\ txParams # <<>>
    /\ fres.same /\ fres.point.frame = ITRF2014 /\ fres.point.epoch = 2015

\* C9 (as claimed): for two frames of different names, the stored
\* source->target entry is applied as it is; when only target->source is
\* stored it is applied with its 7 parameters and 7 rates negated and its
\* epoch kept; when both are stored the forward one is used; dt is the
\* observation epoch minus the epoch of the entry.
C9_Original ==
    (FValidCall /\ fcall.self.frame.name # fcall.to.name) => FDirect

\* C9 (amended): the same, for two frames of different names that are not
\* an ITRF* / WGS84* pair; for an ITRF* / WGS84* pair the input point is
\* returned unchanged even when an entry for the pair is stored.
C9_DirectEntry ==
    (FValidCall /\ fcall.self.frame.name # fcall.to.name) =>
        IF Coincident(fcall.self.frame, fcall.to)
        THEN fres.kind = "return" /\ fres.same /\ fres.point = fcall.self
        ELSE FDirect

C9_Witness ==
    /\ FValidCall /\ fcall.self.frame = ITRF2014 /\ fcall.to = NAD83
    /\ ~Stored(ITRF2014.name, NAD83.name).def /\ Stored(NAD83.name, ITRF2014.name).def
    /\ fcall.self.epoch = 2015
    /\ fres.kind = "return" /\ fres.point.x # fcall.self.x

\* the result is the chain through the frame named X: source->X, then
\* X->target or, when that is not stored, target->X negated
FChain(X) ==
    LET e1 == Stored(fcall.self.frame.name, X)
        f2 == Stored(X, fcall.to.name)
        r2 == Stored(fcall.to.name, X)
        mid == applyTransform(fcall.self, e1.params, e1.rates, FObserved - e1.epoch)
    IN  /\ e1.def /\ (f2.def \/ r2.def)
        /\ fres.kind = "return"
        /\ SameXYZ(fres.point,
                   IF f2.def
                   THEN applyTransform(mid, f2.params, f2.rates, FObserved - f2.epoch)
                   ELSE applyTransform(mid, Negated(r2.params), Negated(r2.rates),
                                       FObserved - r2.epoch))

FrameNames == {f.name : f \in referenceFrames}

\* C10 (as claimed): when neither source->target nor target->source is
\* stored and some frame X has source->X stored together with X->target or
\* target->X, the conversion succeeds and returns the chain through such an
\* X, the second hop negated when only target->X is stored, each hop with
\* dt = observation epoch - epoch of the hop.  (Frames of an ITRF* / WGS84*
\* pair are left aside.)
C10_Original ==
    (/\ FValidCall /\ fcall.self.frame.name # fcall.to.name
     /\ ~Coincident(fcall.self.frame, fcall.to)
     /\ ~Stored(fcall.self.frame.name, fcall.to.name).def
     /\ ~Stored(fcall.to.name, fcall.self.frame.name).def
     /\ \E X \in FrameNames :
            /\ Stored(fcall.self.frame.name, X).def
            /\ Stored(X, fcall.to.name).def \/ Stored(fcall.to.name, X).def)
    => \E X \in FrameNames : FChain(X)

\* C10: a call where source->X and target->X are the only entries stored
\* ends with the TypeError of reading a property of undefined
C10_Failure ==
    /\ FValidCall /\ fcall.self.frame = ITRF2014 /\ fcall.to = NAD83
    /\ Len(txParams) = 2
    /\ Stored(ITRF2014.name, ETRF2000.name).def /\ Stored(NAD83.name, ETRF2000.name).def
    /\ fres = UndefinedRead

\* some frame X has source->X and X->target stored, or target->X and
\* X->source stored
FChainStored ==
    \E X \in FrameNames :
        \/ Stored(fcall.self.frame.name, X).def /\ Stored(X, fcall.to.name).def
        \/ Stored(fcall.to.name, X).def /\ Stored(X, fcall.self.frame.name).def

\* a finished call between two frames of different names for which neither
\* a direct entry nor a chain is stored
FNoPath ==
    /\ FValidCall /\ fcall.self.frame.name # fcall.to.name
    /\ ~Stored(fcall.self.frame.name, fcall.to.name).def
    /\ ~Stored(fcall.to.name, fcall.self.frame.name).def
    /\ ~FChainStored

\* the two names are an ITRF* / WGS84* pair, in either order
FPrefixPair ==
    LET a == fcall.self.frame.name
        b == fcall.to.name
        itrf(n) == Len(n) >= 4 /\ SubSeq(n, 1, 4) = <<"I", "T", "R", "F">>
        wgs(n) == Len(n) >= 5 /\ SubSeq(n, 1, 5) = <<"W", "G", "S", "8", "4">>
    IN  (itrf(a) /\ wgs(b)) \/ (wgs(a) /\ itrf(b))

\* C11 (as claimed): for every table, when no direct entry and no common
\* intermediate frame connects the source frame to the target frame, the
\* conversion fails with an error and returns no point.
C11_Original == FNoPath => fres.kind = "throw"

\* C11 (amended): the same for two frames that are not an ITRF* / WGS84*
\* pair; for such a pair the input point is returned untransformed although
\* no path is stored.
C11_NoPath ==
    FNoPath =>
        IF FPrefixPair
        THEN fres.kind = "return" /\ fres.same /\ fres.point = fcall.self
        ELSE fres.kind = "throw" /\ fres.point = NoCartesian

C11_Witness ==
    /\ FNoPath /\ fcall.self.frame = ITRF2014 /\ fcall.to = NAD83
    /\ Stored(ETRF2000.name, NAD83.name).def /\ Len(txParams) = 1
    /\ fres.kind = "throw"

\* C12: a conversion between a frame whose name starts with ITRF and one
\* whose name starts with WGS84, in either direction, returns the input
\* point with x, y, z and epoch unchanged, whether or not an entry for the
\* pair is stored.
C12_Shortcut ==
    (FValidCall /\ FPrefixPair) =>
        (fres.kind = "return" /\ fres.same /\ fres.point = fcall.self)

C12_Witness ==
    /\ FValidCall /\ fcall.self.frame = WGS84g1762 /\ fcall.to = ITRF2014
    /\ Stored(ITRF2014.name, WGS84g1762.name).def
    /\ fres.same /\ fres.point.x = fcall.self.x /\ fres.point.frame = WGS84g1762

\* the observation epoch of the returned point
FResultEpoch ==
    IF fres.point.epoch # 0 THEN fres.point.epoch ELSE fres.point.frame.epoch

\* C13: the observation epoch of the point returned by a successful
\* conversion is the observation epoch of the source point (the reference
\* epoch of its frame when it carries none of its own), never the one of the
\* target frame or of an entry.
C13_EpochKept ==
    (FValidCall /\ fres.kind = "return") => FResultEpoch = FObserved

C13_Witness ==
    /\ FValidCall /\ fcall.self.frame = ITRF2014 /\ fcall.self.epoch = 0
    /\ fcall.to = ETRF2000 /\ Stored(ITRF2014.name, ETRF2000.name).def
    /\ fres.kind = "return" /\ ~fres.same
    /\ fres.point.frame = ETRF2000 /\ fres.point.epoch = 2010

----------------------------------------------------------------------------
(* Properties of the datum operations *)

\* a finished Cartesian convertDatum whose target has an ellipsoid, whose
\* receiver has a datum, both with a transform
GConverted ==
    /\ gpc = "done"
    /\ gcall.op = "convertDatum"
    /\ HasEllipsoid(gcall.to)
    /\ gcall.self.datum.def
    /\ gcall.to.transform # <<>>
    /\ gcall.self.datum.transform # <<>>

\* d is the object datums.WGS84
IsWGS84(d) == SameObject(d, datums["WGS84"])

\* the point c moved by the transform t and tagged with the datum d
Moved(c, t, d) == [applyTransform_Datum(c, t) EXCEPT !.datum = d]

\* C14: Cartesian convertDatum returns a point tagged with the target
\* datum; from WGS84 it is the receiver moved by the target's transform, to
\* WGS84 the receiver moved by the negated transform of its own datum, and
\* otherwise the receiver first taken to WGS84 and then moved by the
\* target's transform.
C14_Original ==
    GConverted =>
        /\ gres.kind = "return"
        /\ SameObject(gres.point.datum, gcall.to)
        /\ IF IsWGS84(gcall.to)
           THEN gres.point = Moved(gcall.self,
                                   NegateAll(gcall.self.datum.transform), gcall.to)
           ELSE IF IsWGS84(gcall.self.datum)
           THEN gres.point = Moved(gcall.self, gcall.to.transform, gcall.to)
           ELSE /\ gres.via = Moved(gcall.self,
                                    NegateAll(gcall.self.datum.transform),
                                    datums["WGS84"])
                /\ gres.point = Moved(gres.via, gcall.to.transform, gcall.to)

\* with the registry as the module defines it, a conversion between two
\* datums that carry an ellipsoid and a transform throws the TypeError of
\* its own nested call
C14_Failure ==
    /\ GConverted
    /\ datums = DatumsLiteral
    /\ gcall.self.datum = UserOSGB36
    /\ gcall.to = UserED50
    /\ gres.kind = "throw"
    /\ gres.err = "TypeError"
    /\ gres.msg = "unrecognised datum"

\* a finished construction of a datum-aware point with a registered datum
\* or with the default
GConstructed ==
    /\ gpc = "done"
    /\ gcall.op = "new"
    /\ (~gcall.to.def \/ \E n \in EllipsoidNames : SameObject(gcall.to, datums[n]))

\* C15: every entry of the registry `datums` references an ellipsoid and
\* carries a transform of seven elements, and the construction of a
\* datum-aware point with a registered datum or with the default datum
\* returns a point.
C15_Original ==
    /\ \A n \in EllipsoidNames :
          HasEllipsoid(datums[n]) /\ Len(datums[n].transform) = 7
    /\ GConstructed => gres.kind = "return"

\* with the registry as the module defines it, the construction of a point
\* with the default datum throws 'unrecognised datum'
C15_Failure ==
    /\ GConstructed
    /\ datums = DatumsLiteral
    /\ ~gcall.to.def
    /\ gres.kind = "throw"
    /\ gres.err = "TypeError"
    /\ gres.msg = "unrecognised datum"

DatumConversions == {"convertDatum", "convertDatum_LatLon"}
FrameConversions == {"convertReferenceFrame", "convertReferenceFrame_LatLon"}

\* a finished conversion to a datum without ellipsoid or to a frame without
\* epoch, or of a Cartesian point without datum or without frame
GRefused ==
    /\ gpc = "done"
    /\ \/ /\ gcall.op \in DatumConversions
          /\ ~gcall.to.def \/ gcall.to.ellipsoid = ""
       \/ /\ gcall.op \in FrameConversions
          /\ ~gcall.to.def \/ ~gcall.to.hasEpoch
       \/ gcall.op = "convertDatum" /\ ~gcall.self.datum.def
       \/ gcall.op = "convertReferenceFrame" /\ ~gcall.self.frame.def

\* C16: a conversion to a datum without ellipsoid or to a reference frame
\* without epoch, and a conversion of a Cartesian point that has no datum
\* (convertDatum) or no reference frame (convertReferenceFrame), throws a
\* TypeError, returns no point, goes through no intermediate point and
\* leaves its receiver as it was.
C16_Refused ==
    GRefused =>
        /\ gres.kind = "throw"
        /\ gres.err = "TypeError"
        /\ gres.point \in {NoCartesianObj, NoCartesian}
        /\ gres.via \in {NoCartesianObj, NoCartesian}
        /\ gres.self = gcall.self

\* a point with a datum is converted to an object without ellipsoid
C16_Witness ==
    /\ GRefused
    /\ gcall.op = "convertDatum"
    /\ gcall.self.datum = UserOSGB36
    /\ gcall.to = UserNoEllipsoid
    /\ gres.msg = "unrecognised datum"
    /\ gres.self = gcall.self

\* C17: toCartesian() of a geodetic point gives a Cartesian point with the
\* datum of that point, or with its reference frame and observation epoch,
\* and toLatLon() of that Cartesian point gives a geodetic point with again
\* the same datum, or the same frame and observation epoch.
C17_TagsKept ==
    /\ (gpc = "done" /\ gcall.op = "roundTrip_Datum") =>
          /\ gres.kind = "return"
          /\ gres.via.datum.def
          /\ SameObject(gres.via.datum, gcall.self.datum)
          /\ gres.point.datum.def
          /\ SameObject(gres.point.datum, gcall.self.datum)
    /\ (gpc = "done" /\ gcall.op = "roundTrip_Frame") =>
          /\ gres.kind = "return"
          /\ gres.via.frame = gcall.self.frame
          /\ EpochOf(gres.via) = EpochOf_LatLon(gcall.self)
          /\ gres.point.frame = gcall.self.frame
          /\ EpochOf_LatLon(gres.point) = EpochOf_LatLon(gcall.self)

\* a point in a caller's datum has made the round trip
C17_Witness ==
    /\ gpc = "done"
    /\ gcall.op = "roundTrip_Datum"
    /\ gcall.self.datum = UserOSGB36
    /\ gres.kind = "return"
    /\ gres.via.datum = UserOSGB36
    /\ gres.point.datum = UserOSGB36

----------------------------------------------------------------------------
(* Properties of the geodetic points *)

\* a finished toLatLon of a point on the minor axis, off the centre
POnAxis ==
    /\ pcall.op = "toLatLon"
    /\ pcall.a = NumV(0)
    /\ pcall.b = NumV(0)
    /\ pcall.c # NumV(0)

\* C18: toLatLon of a Cartesian point with x = 0, y = 0 and z # 0 returns a
\* point of latitude +90 degrees for z > 0 and -90 degrees for z < 0.
C18_Original ==
    POnAxis => pt.lat = NumV(90 * DegQ * Sign(pcall.c.n))

\* the point (0, 0, 1) comes back with latitude 0
C18_Failure ==
    /\ POnAxis
    /\ pcall.c = NumV(1)
    /\ pres = "ok"
    /\ pt.lat = NumV(0)
    /\ pt.lon = NumV(0)

\* C19: a point that has been constructed, and on which every assignment
\* so far has completed without error, has a latitude in [-90, 90] degrees.
C19_Original ==
    (pt.def /\ pclean) =>
        /\ pt.lat.k = "fin"
        /\ -90 * DegQ <= pt.lat.n
        /\ pt.lat.n <= 90 * DegQ

\* new LatLonEllipsoidal(Infinity, 0) completes and stores NaN
C19_Failure ==
    /\ pcall.op = "new"
    /\ pcall.a = InfV
    /\ pcall.b = NumV(0)
    /\ pres = "ok"
    /\ pt.def
    /\ pt.lat = NaNV

\* the longitude stored is a number of [-180, 180] degrees
LonClosed ==
    /\ pt.lon.k = "fin"
    /\ -180 * DegQ <= pt.lon.n
    /\ pt.lon.n <= 180 * DegQ

GConversions ==
    DatumConversions \cup FrameConversions \cup
    {"toLatLon", "roundTrip_Datum", "roundTrip_Frame"}

\* C21: a conversion leaves the point it is called on as it was, whether it
\* returns or throws: coordinates, datum, reference frame and epoch of the
\* receiver are the same after the call as before.
C21_Original ==
    (gpc = "done" /\ gcall.op \in GConversions) => gres.self = gcall.self

\* toLatLon with a datum argument has returned a point and has left its
\* receiver in the datum of the argument
C21_Failure ==
    /\ gpc = "done"
    /\ gcall.op = "toLatLon"
    /\ gcall.self.datum = UserOSGB36
    /\ gcall.to = UserED50
    /\ gres.kind = "return"
    /\ gres.point.datum = UserED50
    /\ gres.self.datum = UserED50

\* C22: the registry of datums never changes: every name maps to the entry
\* it had after the module was loaded, whatever operations and assignments
\* through the static getters have been made.
C22_Original == datums = DatumsLiteral

\* a caller's object has taken the place of the entry WGS84
C22_Failure ==
    /\ datums["WGS84"] = UserWGS84
    /\ \A n \in EllipsoidNames \ {"WGS84"} : datums[n] = DatumsLiteral[n]

\* the transform t is a shift: no scale, no rotation
IsShift(t) == \A i \in 4..7 : t[i] = 0

\* a finished conversion there and back of a point in a WGS84 datum (the
\* ellipsoid WGS84 with the zero transform) to a datum with a transform
GWentBack ==
    /\ gpc = "done"
    /\ gcall.op = "thereAndBack"
    /\ gcall.self.datum.ellipsoid = "WGS84"
    /\ gcall.self.datum.transform = Zero7
    /\ HasEllipsoid(gcall.to)
    /\ gcall.to.transform # <<>>

\* the part of a coordinate that carries no factor eps or kap
Leading(p) == p[<<0, 0>>]

\* C24: a WGS84 Cartesian point converted to a datum with a transform and
\* back to WGS84 comes back with the coordinates it had, but for terms that
\* carry a scale or a rotation of the transform as a factor; it comes back
\* exactly when the transform is a shift.
C24_Original ==
    GWentBack =>
        /\ gres.kind = "return"
        /\ Leading(gres.point.x) = Leading(gcall.self.x)
        /\ Leading(gres.point.y) = Leading(gcall.self.y)
        /\ Leading(gres.point.z) = Leading(gcall.self.z)
        /\ IsShift(gcall.to.transform) =>
              /\ gres.point.x = gcall.self.x
              /\ gres.point.y = gcall.self.y
              /\ gres.point.z = gcall.self.z

\* with the registry as the module defines it, the conversion of a WGS84
\* point to a shifted datum throws in its nested call
C24_Failure ==
    /\ GWentBack
    /\ datums = DatumsLiteral
    /\ gcall.self.datum = UserWGS84
    /\ gcall.to = UserShift
    /\ gres.kind = "throw"
    /\ gres.err = "TypeError"
    /\ gres.msg = "unrecognised datum"

\* the triangle wave of period 360 and amplitude 90 that is the identity on
\* [-90, 90], for a whole number x of degrees
Triangle(x) ==
    LET r == (x + 90) % 360
    IN  IF r <= 180 THEN r - 90 ELSE 270 - r

\* the number v is a floating-point number of the model
Representable(v) == FRound(v) = v

\* the argument v of wrap90 and the exact values of its steps are all
\* floating-point numbers, as they are for whole degrees in doubles
StepsExact(v) ==
    LET t1 == v - 90 * DegQ
        t3 == JsRem(t1, 360 * DegQ) + 360 * DegQ
        t5 == JsRem(t3, 360 * DegQ) - 180 * DegQ
    IN  \A w \in {v, t1, t3, t5, Abs(t5) - 90 * DegQ} : Representable(w)

\* C25: for a whole number of degrees Dms.wrap90 is the triangle wave of
\* period 360 and amplitude 90 that is the identity on [-90, 90], and its
\* result lies in [-90, 90].
C25_Triangle ==
    pcall.op = "wrap90" =>
        /\ pcall.b.k = "fin"
        /\ -90 * DegQ <= pcall.b.n
        /\ pcall.b.n <= 90 * DegQ
        /\ StepsExact(pcall.a.n) =>
              pcall.b.n = Triangle(pcall.a.n \div DegQ) * DegQ

\* 270 degrees have been wrapped to -90
C25_Witness ==
    /\ pcall.op = "wrap90"
    /\ pcall.a = NumV(270 * DegQ)
    /\ StepsExact(pcall.a.n)
    /\ pcall.b = NumV(-90 * DegQ)


\* C26: the sigma loop of the VB port of Direct makes at most 100 passes
\* for every input, and a run that has not converged after 100 passes
\* raises EvalException instead of looping further.
C26_Original ==
    /\ passes_VB <= 100
    /\ (passes_VB = 100 /\ lastDelta_VB = "large") =>
            (pc_VB = "done" /\ res_VB = Throw("EvalException"))

\* the 101st pass of a run whose every pass left |sigma - sigma'| above
\* 1e-12: the counter still reads 0
C26_Failure ==
    /\ pc_VB = "loop" /\ passes_VB = 101 /\ lastDelta_VB = "large"
    /\ iterations_VB = 0 /\ res_VB = NoOutcome

\* the point (x, y, z) of the last toLatLon call has a NaN cos(beta)
PDegenerate ==
    /\ pcall.op = "toLatLon"
    /\ cosBeta(pcall.a.n, pcall.b.n, pcall.c.n).k = "nan"

\* C27: toLatLon of a Cartesian point with finite coordinates returns a
\* point whose latitude is not NaN; when cos(beta) is NaN (z = 0, the
\* centre, the axis, an overflowing x or y) the latitude is 0 and the
\* longitude and the height are numbers, not NaN.
C27_NoNaN ==
    pcall.op = "toLatLon" =>
        /\ pres = "ok"
        /\ pt.def
        /\ pt.lat.k = "fin"
        /\ PDegenerate =>
              /\ pt.lat = NumV(0)
              /\ pt.lon.t = "number" /\ pt.lon.k # "nan"
              /\ pheight.t = "number" /\ pheight.k # "nan"

\* the point (1, 0, 0) of the equator: latitude 0, longitude 0, a height
C27_Witness ==
    /\ PDegenerate
    /\ pcall.a = NumV(1) /\ pcall.b = NumV(0) /\ pcall.c = NumV(0)
    /\ pres = "ok"
    /\ pt.lat = NumV(0) /\ pt.lon = NumV(0)
    /\ pheight = NumV(-1)

Setters == LatSetters \cup LonSetters \cup {"height"}

\* C28 as stated: a setter call on a point that ends in TypeError leaves
\* the stored latitude, longitude and height as they were before the call.
C28_Original ==
    [][(pt.def /\ pcall'.op \in Setters /\ pres' = "TypeError") =>
            (pt' = pt /\ pheight' = pheight)]_vars

\* p.height = "x" on a constructed point: the call throws and the height,
\* which no constructor leaves NaN, is NaN afterwards
C28_Failure ==
    /\ pt.def
    /\ pcall.op = "height"
    /\ pcall.a = TxtStr
    /\ pres = "TypeError"
    /\ pheight = NaNV
    /\ pt.lat = NumV(0)
    /\ pt.lon = NumV(0)


\* a successful conversion between frames of different names
FConverted ==
    /\ FValidCall
    /\ fcall.self.frame.name # fcall.to.name
    /\ fres.kind = "return"

\* C29 (as claimed): for every pair of source and target frames with
\* different names, the point returned by a successful
\* convertReferenceFrame(target) is tagged with the target frame.
C29_Original == FConverted => fres.point.frame = fcall.to

\* C29 (amended): the same for two frames that are not an ITRF* / WGS84*
\* pair; for such a pair the point returned is the input point, still tagged
\* with the source frame.
C29_Tagged ==
    FConverted =>
        IF FPrefixPair
        THEN fres.point = fcall.self /\ fres.point.frame = fcall.self.frame
        ELSE fres.point.frame = fcall.to /\ fres.point.frame # fcall.self.frame

C29_Witness ==
    /\ FConverted /\ fcall.self.frame = ETRF2000 /\ fcall.to = NAD83
    /\ Stored(ETRF2000.name, NAD83.name).def
    /\ ~fres.same /\ fres.point.frame = NAD83


\* a finished convertDatum of a Cartesian point
GTraced == gpc = "done" /\ gcall.op = "convertDatum"

\* at most one nested call, which never calls again, and at most two
\* transforms
GBounded ==
    /\ Len(gtrace.path) \in {1, 2}
    /\ gtrace.path[1] = "nested" <=> Len(gtrace.path) = 2
    /\ gtrace.transforms <= 2

\* C30 (as claimed): convertDatum makes at most one nested convertDatum
\* call; the nested call takes the branch 'target is WGS84' and calls no
\* further; a conversion applies at most two Helmert transforms.
C30_Original ==
    GTraced =>
        /\ GBounded
        /\ Len(gtrace.path) = 2 => gtrace.path[2] = "toWGS84"

\* what holds of every conversion: the nested call takes the branch
\* 'target is WGS84' when the entry WGS84 of the registry references an
\* ellipsoid; when it does not, the nested call is refused and the
\* conversion throws without applying a transform
GNesting ==
    GTraced =>
        /\ GBounded
        /\ Len(gtrace.path) = 2 =>
              IF datums["WGS84"].ellipsoid # ""
              THEN gtrace.path[2] = "toWGS84"
              ELSE /\ gtrace.path[2] = "refused"
                   /\ gtrace.transforms = 0
                   /\ gres.kind = "throw" /\ gres.msg = "unrecognised datum"
        /\ (/\ gcall.to.def /\ gcall.to.ellipsoid # "" /\ gcall.self.datum.def
            /\ ~SameObject(gcall.self.datum, datums["WGS84"])
            /\ ~SameObject(gcall.to, datums["WGS84"])) => Len(gtrace.path) = 2

\* with the registry as the module defines it, the nested call of a
\* conversion between two datums is refused at its first test and takes no
\* branch
C30_Failure ==
    /\ GTraced
    /\ datums = DatumsLiteral
    /\ gcall.self.datum = UserOSGB36
    /\ gcall.to = UserED50
    /\ gtrace = [path |-> <<"nested", "refused">>, transforms |-> 0]
    /\ gres.kind = "throw"
    /\ gres.msg = "unrecognised datum"

============================================================================
